---- MODULE Spec2Model ----
(***************************************************************************)
(* A model of mmctools' LITTLE_R observation report reader and WRF nudging *)
(* exporter (measurements/little_r.py, class Report).                      *)
(*                                                                         *)
(* Lines of text are TLA+ strings and are sliced by column exactly as the  *)
(* Python code slices them.  Decoded values are tagged records, one field  *)
(* name per Python type, so that values of different types compare as      *)
(* unequal the way they do in Python:                                      *)
(*    [s |-> "abc"]        str                                              *)
(*    [b |-> TRUE]         bool                                             *)
(*    [i |-> 7]            int                                              *)
(*    [neg, ip, fp]        float, sign / integer part / 1e-5 fraction      *)
(*    [nan |-> TRUE]       float('nan')                                     *)
(***************************************************************************)
EXTENDS Integers, Sequences, FiniteSets, TLC

(***************************************************************************)
(* Python string primitives                                                *)
(***************************************************************************)
Min(a, b) == IF a <= b THEN a ELSE b

Max(a, b) == IF a >= b THEN a ELSE b

\* s[i] for a 1-based column i
Char(s, i) == SubSeq(s, i, i)

\* s[:n]
Take(s, n) == SubSeq(s, 1, Min(n, Len(s)))

\* s[n:]
Drop(s, n) == SubSeq(s, Min(n, Len(s)) + 1, Len(s))

IsSpace(c) == c \in {" ", "\n", "\t"}

\* the columns of s that hold no white space
NonSpace(s) == {i \in 1..Len(s) : ~IsSpace(Char(s, i))}

Least(S) == CHOOSE i \in S : \A j \in S : i <= j

Greatest(S) == CHOOSE i \in S : \A j \in S : i >= j

\* the n-th smallest member of a set of positions
Nth(S, n) == CHOOSE k \in S : Cardinality({j \in S : j <= k}) = n

\* a value computed once and used under a name (one or two of them): the
\* name is bound to the value, not to the expression
With(v, F(_)) == CHOOSE r \in { F(x) : x \in {v} } : TRUE

With2(v, w, F(_, _)) == CHOOSE r \in { F(x, y) : x \in {v}, y \in {w} } : TRUE

\* str.strip()
strip(str) ==
    With(str, LAMBDA s :
    With(NonSpace(s), LAMBDA ns :
        IF ns = {} THEN "" ELSE SubSeq(s, Least(ns), Greatest(ns))))

\* str.split(): the whitespace-separated tokens of s, each running from a
\* column that follows white space to the last column before white space
split(str) ==
    With(str, LAMBDA s :
    With(NonSpace(s), LAMBDA ns :
    With2({i \in ns : (i - 1) \notin ns}, {i \in ns : (i + 1) \notin ns},
          LAMBDA starts, ends :
              [k \in 1..Cardinality(starts) |->
                  SubSeq(s, Nth(starts, k), Nth(ends, k))])))

UpperCase == "ABCDEFGHIJKLMNOPQRSTUVWXYZ"

LowerCase == "abcdefghijklmnopqrstuvwxyz"

RECURSIVE IndexIn(_, _, _)
IndexIn(c, alphabet, i) ==
    IF i > Len(alphabet) THEN 0
    ELSE IF Char(alphabet, i) = c THEN i ELSE IndexIn(c, alphabet, i + 1)

LowerChar(c) ==
    LET k == IndexIn(c, UpperCase, 1)
    IN  IF k = 0 THEN c ELSE Char(LowerCase, k)

\* str.lower()
RECURSIVE lower(_)
lower(s) ==
    IF s = "" THEN "" ELSE LowerChar(Char(s, 1)) \o lower(Drop(s, 1))

Digits == "0123456789"

IsDigit(c) == IndexIn(c, Digits, 1) # 0

RECURSIVE AllDigits(_)
AllDigits(s) ==
    IF s = "" THEN TRUE ELSE IsDigit(Char(s, 1)) /\ AllDigits(Drop(s, 1))

\* the value of a non-empty string of decimal digits
RECURSIVE DigitsValue(_)
DigitsValue(s) ==
    IF s = "" THEN 0
    ELSE 10 * DigitsValue(SubSeq(s, 1, Len(s) - 1))
            + (IndexIn(Char(s, Len(s)), Digits, 1) - 1)

RECURSIVE Repeat(_, _)
Repeat(c, n) == IF n <= 0 THEN "" ELSE c \o Repeat(c, n - 1)

\* '{:>w}'.format(s)
rjust(s, w) == Repeat(" ", w - Len(s)) \o s

\* '{:<w}'.format(s), the default alignment of '{:ws}'
ljust(s, w) == s \o Repeat(" ", w - Len(s))

\* '{:0wd}'.format(n) for n >= 0
zfill(n, w) == Repeat("0", w - Len(ToString(n))) \o ToString(n)

(***************************************************************************)
(* Python values and the builtin conversions the layouts use               *)
(***************************************************************************)
\* the result of a conversion that raised ValueError
ValueError == [err |-> "ValueError"]

NaN == [nan |-> TRUE]

\* a finite float sign * (ip + fp / 100000); zero carries no sign
Inf(neg) == [inf |-> TRUE, neg |-> neg]

Float(neg, ip, fp) == [neg |-> neg /\ (ip # 0 \/ fp # 0), ip |-> ip, fp |-> fp]

IsStr(v) == DOMAIN v = {"s"}

IsBool(v) == DOMAIN v = {"b"}

IsInt(v) == DOMAIN v = {"i"}

IsNaN(v) == DOMAIN v = {"nan"}

IsFloat(v) == DOMAIN v = {"neg", "ip", "fp"}

IsInf(v) == DOMAIN v = {"inf", "neg"}

IsError(v) == DOMAIN v = {"err"}

\* an == that holds between integers only
IntEqualsInt(v, n) == IsInt(v) /\ v.i = n

\* Python's == between a decoded value and an int literal n
PyEqualsInt(v, n) ==
    IF IsInt(v) THEN v.i = n
    ELSE IF IsFloat(v)
         THEN v.fp = 0 /\ (IF v.neg THEN 0 - v.ip ELSE v.ip) = n
    ELSE IF IsBool(v) THEN (IF v.b THEN 1 ELSE 0) = n
    ELSE FALSE

\* pd.isna(v)
isna(v) == IsNaN(v)

SignLen(t) == IF t # "" /\ Char(t, 1) \in {"-", "+"} THEN 1 ELSE 0

MaxDigits == 9

\* str(s): never fails
py_str(text) == [s |-> text]

\* int(s): an optional sign and decimal digits, else ValueError
py_int(text) ==
    With(strip(text), LAMBDA t :
    With(Drop(t, SignLen(t)), LAMBDA d :
        IF d # "" /\ AllDigits(d) /\ Len(d) <= MaxDigits
        THEN [i |-> IF Take(t, 1) = "-" THEN 0 - DigitsValue(d) ELSE DigitsValue(d)]
        ELSE ValueError))

\* the 1e-5 units of a string of fraction digits (digits past the fifth are
\* below the resolution of the values the format carries)
FracValue(f) == DigitsValue(Take(f \o "00000", 5))

\* float(s) for plain decimal notation, 'nan', 'inf' and 'infinity': an
\* optional sign, then a name in any case or
\* digits with at most one '.', at least one digit in all; else ValueError
py_float(text) ==
    With(strip(text), LAMBDA t :
    With(Drop(t, SignLen(t)), LAMBDA d :
    With(IndexIn(".", d, 1), LAMBDA dot :
    With2(IF dot = 0 THEN d ELSE Take(d, dot - 1),
          IF dot = 0 THEN "" ELSE Drop(d, dot), LAMBDA ip, fp :
        IF lower(d) = "nan" THEN NaN
        ELSE IF lower(d) \in {"inf", "infinity"} THEN Inf(Take(t, 1) = "-")
        ELSE IF /\ AllDigits(ip) /\ AllDigits(fp)
                /\ Len(ip) + Len(fp) > 0 /\ Len(ip) <= MaxDigits
             THEN Float(Take(t, 1) = "-", DigitsValue(ip), FracValue(fp))
             ELSE ValueError))))

boolean(text) ==
    With(lower(strip(text)), LAMBDA t : [b |-> (t = "t") \/ (t = "true")])

DaysInMonth(y, m) ==
    IF m \in {4, 6, 9, 11} THEN 30
    ELSE IF m # 2 THEN 31
    ELSE IF (y % 4 = 0 /\ y % 100 # 0) \/ y % 400 = 0 THEN 29 ELSE 28

\* pd.to_datetime(s, format='%Y%m%d%H%M%S') for a non-empty s: a timestamp
\* [date |-> yyyymmdd, time |-> hhmmss], or ValueError
to_datetime(text) ==
    IF /\ Len(text) = 14 /\ AllDigits(text)
       /\ DigitsValue(SubSeq(text, 5, 6)) \in 1..12
       /\ DigitsValue(SubSeq(text, 7, 8)) \in
              1..DaysInMonth(DigitsValue(SubSeq(text, 1, 4)), DigitsValue(SubSeq(text, 5, 6)))
       /\ DigitsValue(SubSeq(text, 9, 10)) < 24
       /\ DigitsValue(SubSeq(text, 11, 12)) < 60
       /\ DigitsValue(SubSeq(text, 13, 14)) < 60
        THEN [date |-> DigitsValue(SubSeq(text, 1, 8)),
              time |-> DigitsValue(SubSeq(text, 9, 14))]
        ELSE ValueError

\* ts1 < ts2
TimeLess(a, b) == a.date < b.date \/ (a.date = b.date /\ a.time < b.time)

(***************************************************************************)
(* Record layouts                                                          *)
(***************************************************************************)
header_records ==
    << <<"Latitude", "F20.5">>, <<"Longitude", "F20.5">>, <<"ID", "A40">>,
       <<"Name", "A40">>, <<"FM-Code", "A40">>, <<"Source", "A40">>,
       <<"Elevation", "F20.5">>, <<"Valid fields", "I10">>,
       <<"Num. errors", "I10">>, <<"Num. warnings", "I10">>,
       <<"Sequence number", "I10">>, <<"Num. duplicates", "I10">>,
       <<"Is sounding?", "L">>, <<"Is bogus?", "L">>, <<"Discard?", "L">>,
       <<"Unix time", "I10">>, <<"Julian day", "I10">>, <<"Date", "A20">>,
       <<"SLP", "F13.5">>, <<"SLP QC", "I7">>,
       <<"Ref Pressure", "F13.5">>, <<"Ref Pressure QC", "I7">>,
       <<"Ground Temp", "F13.5">>, <<"Ground Temp QC", "I7">>,
       <<"SST", "F13.5">>, <<"SST QC", "I7">>,
       <<"SFC Pressure", "F13.5">>, <<"SFC Pressure QC", "I7">>,
       <<"Precip", "F13.5">>, <<"Precip QC", "I7">>,
       <<"Daily Max T", "F13.5">>, <<"Daily Max T QC", "I7">>,
       <<"Daily Min T", "F13.5">>, <<"Daily Min T QC", "I7">>,
       <<"Night Min T", "F13.5">>, <<"Night Min T QC", "I7">>,
       <<"3hr Pres Change", "F13.5">>, <<"3hr Pres Change QC", "I7">>,
       <<"24hr Pres Change", "F13.5">>, <<"24hr Pres Change QC", "I7">>,
       <<"Cloud cover", "F13.5">>, <<"Cloud cover QC", "I7">>,
       <<"Ceiling", "F13.5">>, <<"Ceiling QC", "I7">> >>

data_records ==
    << <<"Pressure (Pa)", "F13.5">>, <<"Pressure (Pa) QC", "I7">>,
       <<"Height (m)", "F13.5">>, <<"Height (m) QC", "I7">>,
       <<"Temperature (K)", "F13.5">>, <<"Temperature (K) QC", "I7">>,
       <<"Dew point (K)", "F13.5">>, <<"Dew point (K) QC", "I7">>,
       <<"Wind speed (m/s)", "F13.5">>, <<"Wind speed (m/s) QC", "I7">>,
       <<"Wind direction (deg)", "F13.5">>, <<"Wind direction (deg) QC", "I7">>,
       <<"Wind U (m/s)", "F13.5">>, <<"Wind U (m/s) QC", "I7">>,
       <<"Wind V (m/s)", "F13.5">>, <<"Wind V (m/s) QC", "I7">>,
       <<"Relative humidity (%)", "F13.5">>, <<"Relative humidity (%) QC", "I7">>,
       <<"Thickness (m)", "F13.5">>, <<"Thickness (m) QC", "I7">> >>

nan_value == -888888

ending_record_value == -777777

default_fieldlen == 10

\* rec[0].lower() mapped to the decoder __init__ selects: str, boolean, int,
\* and float for every other type letter
FieldDtype(rec) ==
    LET dtype == lower(Take(rec, 1))
    IN  IF dtype = "a" THEN "str"
        ELSE IF dtype = "l" THEN "boolean"
        ELSE IF dtype = "i" THEN "int"
        ELSE "float"

\* int(rec[1:].split('.')[0]), and the default length when that raises
FieldLen(rec) ==
    LET spec == Drop(rec, 1)
        dot  == IndexIn(".", spec, 1)
        w    == IF dot = 0 THEN spec ELSE Take(spec, dot - 1)
    IN  IF py_int(w) # ValueError THEN py_int(w).i ELSE default_fieldlen

\* the keys of a layout, in order
Keys(records) == [k \in 1..Len(records) |-> records[k][1]]

KeySet(records) == {records[k][1] : k \in 1..Len(records)}

RecOf(records, key) ==
    records[CHOOSE k \in 1..Len(records) : records[k][1] = key][2]

header_dtypes == [key \in KeySet(header_records) |-> FieldDtype(RecOf(header_records, key))]

header_fieldlen == [key \in KeySet(header_records) |-> FieldLen(RecOf(header_records, key))]

data_dtypes == [key \in KeySet(data_records) |-> FieldDtype(RecOf(data_records, key))]

data_fieldlen == [key \in KeySet(data_records) |-> FieldLen(RecOf(data_records, key))]

\* dtype(val)
Convert(dtype, val) ==
    CASE dtype = "str"     -> py_str(val)
      [] dtype = "boolean" -> boolean(val)
      [] dtype = "int"     -> py_int(val)
      [] dtype = "float"   -> py_float(val)

\* a dict d with d[key] = val
SetItem(d, key, val) ==
    [k \in DOMAIN d \cup {key} |-> IF k = key THEN val ELSE d[k]]

EmptyDict == [k \in {} |-> NaN]

(***************************************************************************)
(* The loop shared by _read_header and _read_data.  Field k of the layout  *)
(* is converted from the first fieldlen columns of what is left of the     *)
(* line, and those columns are then cut off the line.  A field whose       *)
(* conversion raises ValueError is reported and left out of the record; a  *)
(* value equal to nan_value becomes NaN.                                   *)
(***************************************************************************)
\* a variant of FieldValues that cuts the columns of a field off the line
\* only when the field was converted
RECURSIVE FieldValuesShifting(_, _, _, _, _)
FieldValuesShifting(line, keys, dtypes, fieldlen, k) ==
    IF k > Len(keys) THEN << >>
    ELSE With(Convert(dtypes[keys[k]], strip(Take(line, fieldlen[keys[k]]))), LAMBDA val :
             << val >>
                 \o FieldValuesShifting(IF IsError(val) THEN line
                                        ELSE Drop(line, fieldlen[keys[k]]),
                                        keys, dtypes, fieldlen, k + 1))

\* val = dtype(line[:fieldlen].strip()) for the fields k.. of the layout, in order
RECURSIVE FieldValues(_, _, _, _, _)
FieldValues(line, keys, dtypes, fieldlen, k) ==
    IF k > Len(keys) THEN << >>
    ELSE << Convert(dtypes[keys[k]], strip(Take(line, fieldlen[keys[k]]))) >>
             \o FieldValues(Drop(line, fieldlen[keys[k]]), keys, dtypes, fieldlen, k + 1)

\* [rec |-> the record, out |-> the messages printed]
DecodeLine(line, keys, dtypes, fieldlen) ==
    With(FieldValues(line, keys, dtypes, fieldlen, 1), LAMBDA vals :
    With({k \in 1..Len(keys) : ~IsError(vals[k])}, LAMBDA good :
    With(SelectSeq(keys, LAMBDA key : \A k \in good : keys[k] # key), LAMBDA bad :
        [rec |-> [key \in {keys[k] : k \in good} |->
                     With(vals[CHOOSE k \in good : keys[k] = key], LAMBDA val :
                         IF PyEqualsInt(val, nan_value) THEN NaN ELSE val)],
         out |-> [k \in 1..Len(bad) |-> "Error parsing " \o bad[k]]])))

(***************************************************************************)
(* Input files: LITTLE_R text built field by field to the layouts' widths  *)
(***************************************************************************)
RECURSIVE FormatFrom(_, _, _)
FormatFrom(records, text, k) ==
    IF k > Len(records) THEN ""
    ELSE rjust(text[records[k][1]], FieldLen(records[k][2]))
             \o FormatFrom(records, text, k + 1)

\* the text of each field of a line: what `given` names, else the missing
\* value for numbers, F for flags and blank for strings
FieldTexts(records, given) ==
    [key \in KeySet(records) |->
        IF key \in DOMAIN given THEN given[key]
        ELSE CASE FieldDtype(RecOf(records, key)) = "float"   -> "-888888.00000"
               [] FieldDtype(RecOf(records, key)) = "int"     -> "-888888"
               [] FieldDtype(RecOf(records, key)) = "boolean" -> "F"
               [] FieldDtype(RecOf(records, key)) = "str"     -> ""]

HeaderLine(id, date, sounding, lat) ==
    FormatFrom(header_records,
               FieldTexts(header_records,
                          [ x \in {"Latitude", "Longitude", "ID", "Name", "FM-Code",
                                   "Source", "Elevation", "Is sounding?", "Date"} |->
                            CASE x = "Latitude"     -> lat
                              [] x = "Longitude"    -> "-122.31000"
                              [] x = "ID"           -> id
                              [] x = "Name"         -> "SEATTLE TACOMA"
                              [] x = "FM-Code"      -> "FM-35 TEMP"
                              [] x = "Source"       -> "GTS"
                              [] x = "Elevation"    -> "132.00000"
                              [] x = "Is sounding?" -> sounding
                              [] x = "Date"         -> date ]), 1)

DataLine(pressure, temperature) ==
    FormatFrom(data_records,
               FieldTexts(data_records,
                          [ x \in {"Pressure (Pa)", "Pressure (Pa) QC", "Height (m)",
                                   "Height (m) QC", "Temperature (K)",
                                   "Temperature (K) QC"} |->
                            CASE x = "Pressure (Pa)"      -> pressure
                              [] x = "Height (m)"         -> "1500.00000"
                              [] x = "Temperature (K)"    -> temperature
                              [] OTHER                    -> "0" ]), 1)

\* the line that ends a data block: -777777 in the value columns
TerminatorLine ==
    FormatFrom(data_records,
               [key \in KeySet(data_records) |->
                   IF FieldDtype(RecOf(data_records, key)) = "float"
                   THEN "-777777.00000" ELSE "0"], 1)

LateDate == "20080205120000"

EarlyDate == "20080205060000"

LongID == "KSEA-72793"

ShortID == "B"

\* the four headers: the two IDs at the two times, soundings and surface
\* reports, one with a latitude that is not a number
HeaderA1 == HeaderLine(LongID, LateDate, "F", "47.45000")

HeaderA2 == HeaderLine(LongID, EarlyDate, "T", "47.45000")

HeaderB1 == HeaderLine(ShortID, LateDate, "T", "north")

HeaderB2 == HeaderLine(ShortID, EarlyDate, "F", "47.45000")

\* a station whose latitude is missing
HeaderB3 == HeaderLine(ShortID, EarlyDate, "T", "-888888.00000")

Row1 == DataLine("85000.00000", "280.15000")

\* missing temperature
Row2 == DataLine("70000.00000", "-888888.00000")

\* missing pressure
RowNoPressure == DataLine("-888888.00000", "275.00000")

\* a temperature that is not a number
RowBadTemperature == DataLine("50000.00000", "2x5.1")

\* a first column that is not a number
RowBadPressure == DataLine("8500o.00000", "280.15000")

Trailer3 == "      2      0      0"

Trailer2 == "      2      0"

Trailer4 == "      2      0      0      0"

\* a header, its data lines, the terminator and the trailer lines
Block(header, rows, trailer) == << header >> \o rows \o << TerminatorLine >> \o trailer

Headers == {HeaderA1, HeaderA2, HeaderB1, HeaderB2, HeaderB3}

\* well-formed blocks of two data lines, a block without data lines, a block
\* without pressure, and blocks with one malformed field or trailer
Blocks ==
    { Block(h, << Row1, Row2 >>, << Trailer3 >>) : h \in Headers }
    \cup { Block(HeaderA2, << >>, << Trailer3 >>),
           Block(HeaderB2, << RowNoPressure >>, << Trailer3 >>),
           Block(HeaderA1, << Row1, RowBadTemperature >>, << Trailer3 >>),
           Block(HeaderA1, << RowBadPressure >>, << Trailer3 >>),
           Block(HeaderA1, << Row1 >>, << Trailer2 >>),
           Block(HeaderA1, << Row1 >>, << Trailer4 >>),
           Block(HeaderA1, << Row1 >>, << >>) }

MaxBlocks == 2

RECURSIVE FilesOf(_)
FilesOf(n) ==
    IF n = 0 THEN { << >> }
    ELSE With(FilesOf(n - 1), LAMBDA shorter :
             shorter \cup { f \o b : f \in {g \in shorter : Len(g) > 0 \/ n = 1},
                                     b \in Blocks })

\* the input files: up to MaxBlocks blocks one after the other
Files == FilesOf(MaxBlocks)

\* every line of every input file, and '' as readline returns it at end of file
Lines == UNION { {b[k] : k \in 1..Len(b)} : b \in Blocks } \cup { "" }

(***************************************************************************)
(* Reading a report file.  A file is the sequence of its lines (without    *)
(* the newline); f.readline() at position pos returns lines[pos], and ''   *)
(* only past the last line.                                                *)
(***************************************************************************)
AtEOF(lines, pos) == pos > Len(lines)

readline(lines, pos) == IF AtEOF(lines, pos) THEN "" ELSE lines[pos]

None == [none |-> TRUE]

\* the for loop of _read_header on each line, tabulated
HeaderFields ==
    [line \in Lines |->
        DecodeLine(line, Keys(header_records), header_dtypes, header_fieldlen)]

\* the for loop of _read_data on each line, tabulated
DataFields ==
    [line \in Lines |->
        DecodeLine(line, Keys(data_records), data_dtypes, data_fieldlen)]

\* Report._read_header: None at end of file, else the decoded header
\* [hdr, pos, out]
_read_header(lines, pos) ==
    IF AtEOF(lines, pos)
    THEN [hdr |-> None, pos |-> pos, out |-> << >>]
    ELSE With(HeaderFields[readline(lines, pos)], LAMBDA d :
             [hdr |-> d.rec, pos |-> pos + 1, out |-> d.out])

firstcol == Keys(data_records)[1]

\* pd.DataFrame(data, columns=...): a row has every column, NaN where the
\* decoded record has no such key
FrameRow(row) ==
    [c \in KeySet(data_records) |-> IF c \in DOMAIN row THEN row[c] ELSE NaN]

\* line.split() on each line, tabulated
Tokens == [line \in Lines |-> split(line)]

\* a faulty variant of TrailerOK: the line after the terminator is consumed
\* and not looked at
TrailerUnchecked(line) == Len(Tokens[line]) >= 0

\* the trailer check of _read_data: the line after the terminator must split
\* into exactly three tokens
TrailerOK(line) == Len(Tokens[line]) = 3

\* a faulty variant of _read_data: the terminator line is appended to the
\* rows before the loop is left
RECURSIVE _read_data_keeping_terminator(_, _, _, _)
_read_data_keeping_terminator(lines, pos, data, out) ==
    With(DataFields[readline(lines, pos)], LAMBDA d :
    With2(out \o d.out, Append(data, FrameRow(d.rec)), LAMBDA o, all :
        IF firstcol \notin DOMAIN d.rec
        THEN [exc |-> "KeyError", data |-> data, pos |-> pos + 1, out |-> o]
        ELSE IF PyEqualsInt(d.rec[firstcol], ending_record_value)
        THEN IF TrailerOK(readline(lines, pos + 1))
             THEN [exc |-> "", data |-> all, pos |-> pos + 2, out |-> o]
             ELSE [exc |-> "AssertionError", data |-> all, pos |-> pos + 2, out |-> o]
        ELSE _read_data_keeping_terminator(lines, pos + 1, all, o)))

\* Report._read_data: rows up to the terminator line, then the trailer line.
\* [exc, data, pos, out]; exc is "" or the exception raised
RECURSIVE _read_data(_, _, _, _)
_read_data(lines, pos, data, out) ==
    With(DataFields[readline(lines, pos)], LAMBDA d :
    With(out \o d.out, LAMBDA o :
        IF firstcol \notin DOMAIN d.rec
        THEN [exc |-> "KeyError", data |-> data, pos |-> pos + 1, out |-> o]
        ELSE IF PyEqualsInt(d.rec[firstcol], ending_record_value)
        THEN IF TrailerOK(readline(lines, pos + 1))
             THEN [exc |-> "", data |-> data, pos |-> pos + 2, out |-> o]
             ELSE [exc |-> "AssertionError", data |-> data, pos |-> pos + 2, out |-> o]
        ELSE _read_data(lines, pos + 1, Append(data, FrameRow(d.rec)), o)))

\* data['datetime'] = tstamp; data['ID'] = hdr['ID']
Tagged(data, tstamp, id) ==
    [k \in 1..Len(data) |-> [datetime |-> tstamp, ID |-> id, v |-> data[k]]]

\* the while loop of Report.read, entered with a header that is not None
\* [exc, rows, out]
RECURSIVE ReadBlocks(_, _, _, _, _)
ReadBlocks(lines, hdr, pos, rows, out) ==
    With2(_read_data(lines, pos, << >>, << >>), to_datetime(hdr["Date"].s),
          LAMBDA d, tstamp :
        IF d.exc # ""
        THEN [exc |-> d.exc, rows |-> rows, out |-> out \o d.out]
        ELSE IF IsError(tstamp)
        THEN [exc |-> "ValueError", rows |-> rows, out |-> out \o d.out]
        ELSE With2(_read_header(lines, d.pos),
                   rows \o Tagged(d.data, tstamp, hdr["ID"].s), LAMBDA nxt, got :
                 IF nxt.hdr = None
                 THEN [exc |-> "", rows |-> got, out |-> out \o d.out]
                 ELSE ReadBlocks(lines, nxt.hdr, nxt.pos, got,
                                 out \o d.out \o nxt.out)))

\* the ID-to-header mapping after the first header of a file was read
AddFirstSeen(obs, hdr) ==
    IF hdr["ID"].s \notin DOMAIN obs THEN SetItem(obs, hdr["ID"].s, hdr) ELSE obs

DataFrame(columns, rows) == [none |-> FALSE, columns |-> columns, rows |-> rows]

NoFrame == [none |-> TRUE, columns |-> << >>, rows |-> << >>]

ReadColumns == Keys(data_records) \o << "ID" >>

\* a faulty variant of read: the rows of every block are tagged with the
\* first header of the file
read_tagging_first_header(lines, df, obs) ==
    With(_read_header(lines, 1), LAMBDA first :
        IF first.hdr = None
        THEN [exc |-> "TypeError", df |-> df, obs |-> obs, out |-> << >>]
        ELSE With2(AddFirstSeen(obs, first.hdr),
                   ReadBlocks(lines, first.hdr, first.pos, << >>, first.out),
                   LAMBDA obs1, r :
                 IF r.exc # ""
                 THEN [exc |-> r.exc, df |-> df, obs |-> obs1, out |-> r.out]
                 ELSE [exc |-> "",
                       df |-> DataFrame(ReadColumns,
                                  [k \in 1..Len(r.rows) |->
                                      [datetime |-> to_datetime(first.hdr["Date"].s),
                                       ID |-> first.hdr["ID"].s, v |-> r.rows[k].v]]),
                       obs |-> obs1, out |-> r.out]))

\* Report.read(fname) on a Report whose fields are df and obs
\* [exc, df, obs, out]
read(lines, df, obs) ==
    With(_read_header(lines, 1), LAMBDA first :
        IF first.hdr = None
        THEN [exc |-> "TypeError", df |-> df, obs |-> obs, out |-> << >>]
        ELSE With2(AddFirstSeen(obs, first.hdr),
                   ReadBlocks(lines, first.hdr, first.pos, << >>, first.out),
                   LAMBDA obs1, r :
                 IF r.exc # ""
                 THEN [exc |-> r.exc, df |-> df, obs |-> obs1, out |-> r.out]
                 ELSE [exc |-> "", df |-> DataFrame(ReadColumns, r.rows),
                       obs |-> obs1, out |-> r.out]))

(***************************************************************************)
(* Python string formatting                                                *)
(***************************************************************************)
RECURSIVE Pow10(_)
Pow10(n) == IF n = 0 THEN 1 ELSE 10 * Pow10(n - 1)

\* a number as sign, integer part and 1e-5 fraction: ints (a QC flag, the
\* filled-in nan_value) format as the float of the same value
AsFloat(v) ==
    IF IsInt(v) THEN Float(v.i < 0, IF v.i < 0 THEN 0 - v.i ELSE v.i, 0) ELSE v

\* v rounded to d <= 5 decimals (ties to even): [neg, ip, q], q in 10^-d units
Rounded(v, d) ==
    With(Pow10(5 - d), LAMBDA unit :
    With2(v.fp \div unit, v.fp % unit, LAMBDA q, r :
    With(IF 2 * r > unit \/ (2 * r = unit /\ q % 2 = 1) THEN q + 1 ELSE q, LAMBDA q1 :
        IF q1 = Pow10(d) THEN [neg |-> v.neg, ip |-> v.ip + 1, q |-> 0]
        ELSE [neg |-> v.neg, ip |-> v.ip, q |-> q1])))

\* '{:.df}'.format(v) for a finite v
FixedText(v, d) ==
    With(Rounded(AsFloat(v), d), LAMBDA r :
        (IF r.neg THEN "-" ELSE "") \o ToString(r.ip)
            \o (IF d = 0 THEN "" ELSE "." \o zfill(r.q, d)))

\* '{:w.df}'.format(v)
FormatF(v, w, d) == rjust(IF IsNaN(v) THEN "nan" ELSE FixedText(v, d), w)

\* text without its trailing zeros, and without a trailing '.'
RECURSIVE TrimZeros(_)
TrimZeros(t) ==
    IF IndexIn(".", t, 1) = 0 THEN t
    ELSE IF Char(t, Len(t)) = "0" THEN TrimZeros(Take(t, Len(t) - 1))
    ELSE IF Char(t, Len(t)) = "." THEN Take(t, Len(t) - 1)
    ELSE t

\* '{:wg}'.format(v) for v = 0 or 1e-4 <= |v| < 1e6 (six significant digits
\* in positional notation) and for nan
FormatG(v, w) ==
    With(AsFloat(v), LAMBDA f :
        rjust(IF IsNaN(v) THEN "nan"
              ELSE IF f.ip = 0 THEN TrimZeros(FixedText(f, 5))
              ELSE TrimZeros(FixedText(f, Max(0, Min(5, 6 - Len(ToString(f.ip)))))), w))

\* time.strftime(' %Y%m%d%H%M%S')
strftime(ts) == " " \o zfill(ts.date, 8) \o zfill(ts.time, 6)

\* str(v)
StrOf(v) ==
    IF IsStr(v) THEN v.s
    ELSE IF IsBool(v) THEN (IF v.b THEN "True" ELSE "False")
    ELSE IF IsNaN(v) THEN "nan"
    ELSE IF IsInt(v) THEN ToString(v.i)
    ELSE FixedText(v, 5)

\* bool(v), as `not v` tests it
Truthy(v) ==
    IF IsStr(v) THEN v.s # ""
    ELSE IF IsBool(v) THEN v.b
    ELSE IF IsInt(v) THEN v.i # 0
    ELSE IF IsNaN(v) THEN TRUE
    ELSE v.ip # 0 \/ v.fp # 0

(***************************************************************************)
(* Report.to_wrf_nudging                                                   *)
(***************************************************************************)
EndsWithQC(col) == Len(col) >= 2 /\ SubSeq(col, Len(col) - 1, Len(col)) = "QC"

\* the value column a QC column is paired with
ValueColumn(col) == Take(col, Len(col) - 3)

MissingValue == Float(TRUE, 0 - nan_value, 0)

\* a row after the missing values were filled in: a QC value is set to
\* missing where its value column is, then every NaN becomes nan_value
Filled(v) ==
    [col \in DOMAIN v |->
        IF isna(v[col]) THEN MissingValue
        ELSE IF EndsWithQC(col) /\ ValueColumn(col) \in DOMAIN v
                /\ isna(v[ValueColumn(col)]) THEN MissingValue
        ELSE v[col]]

\* the header after its strings were truncated and its flags made text
Truncated(meta) ==
    [key \in DOMAIN meta |->
        CASE key = "ID"           -> [s |-> Take(meta[key].s, 5)]
          [] key = "Name"         -> [s |-> Take(meta[key].s, 75)]
          [] key = "FM-Code"      -> [s |-> Take(meta[key].s, 18)]
          [] key = "Source"       -> [s |-> Take(meta[key].s, 16)]
          [] key = "Is sounding?" -> [s |-> Take(StrOf(meta[key]), 1)]
          [] key = "Is bogus?"    -> [s |-> Take(StrOf(meta[key]), 1)]
          [] OTHER                -> meta[key]]

outputs ==
    << "Pressure (Pa)", "Pressure (Pa) QC", "Height (m)", "Height (m) QC",
       "Temperature (K)", "Temperature (K) QC", "Wind U (m/s)", "Wind U (m/s) QC",
       "Wind V (m/s)", "Wind V (m/s) QC",
       "Relative humidity (%)", "Relative humidity (%) QC" >>

\* fmtstr.format(*row.values)
RECURSIVE RowText(_, _)
RowText(v, k) ==
    IF k > Len(outputs) THEN ""
    ELSE " " \o FormatF(v[outputs[k]], 11, 3) \o RowText(v, k + 1)

\* df.index.unique(): the timestamps of the rows in order of first appearance
UniqueTimes(rows) ==
    With({k \in 1..Len(rows) : \A j \in 1..(k - 1) : rows[j].datetime # rows[k].datetime},
         LAMBDA firsts : [n \in 1..Cardinality(firsts) |-> rows[Nth(firsts, n)].datetime])

\* df.loc[df.index == time]
RowsAt(rows, time) == SelectSeq(rows, LAMBDA r : r.datetime = time)

\* the level count written on the fourth metadata line
Nlevels(meta, dftime) == IF ~Truthy(meta["Is sounding?"]) THEN 1 ELSE Len(dftime)

Line2(meta) ==
    FormatF(meta["Latitude"], 9, 2) \o " " \o FormatF(meta["Longitude"], 9, 2)

Line3(meta) == "  " \o rjust(meta["ID"].s, 5) \o "   " \o rjust(meta["Name"].s, 75)

Line4(meta, nlev) ==
    "  " \o ljust(meta["FM-Code"].s, 18) \o ljust(meta["Source"].s, 16)
         \o "  " \o FormatG(meta["Elevation"], 8)
         \o "     " \o ljust(meta["Is sounding?"].s, 1)
         \o "     " \o ljust(meta["Is bogus?"].s, 1)
         \o "   " \o rjust(ToString(nlev), 4)

\* the lines one pass of the loop over the timestamps writes; the pass ends
\* in KeyError at the first metadata line that names a key meta lacks
WriteBlock(meta, dftime, time) ==
    IF {"Latitude", "Longitude"} \ DOMAIN meta # {}
    THEN [exc |-> "KeyError", lines |-> << strftime(time) >>]
    ELSE IF "Elevation" \notin DOMAIN meta
    THEN [exc |-> "KeyError", lines |-> << strftime(time), Line2(meta), Line3(meta) >>]
    ELSE [exc |-> "",
          lines |-> << strftime(time), Line2(meta), Line3(meta),
                       Line4(meta, Nlevels(meta, dftime)) >>
                    \o [k \in 1..Len(dftime) |-> RowText(dftime[k].v, 1)]]

\* the loop over df.index.unique(): the blocks written, up to and including
\* the one that raised
RECURSIVE WriteBlocks(_, _, _, _)
WriteBlocks(meta, rows, times, k) ==
    IF k > Len(times) THEN [exc |-> "", blocks |-> << >>]
    ELSE With(WriteBlock(meta, RowsAt(rows, times[k]), times[k]), LAMBDA b :
             IF b.exc # "" THEN [exc |-> b.exc, blocks |-> << b.lines >>]
             ELSE With(WriteBlocks(meta, rows, times, k + 1), LAMBDA r :
                      [exc |-> r.exc, blocks |-> << b.lines >> \o r.blocks]))

NoID == [none |-> TRUE]

\* self.df['ID'].unique()
IDsOf(rows) == {rows[k].ID : k \in 1..Len(rows)}

\* a faulty variant of SingleID: any number of IDs passes, the first is taken
AnyID(rows) == Cardinality(IDsOf(rows)) >= 1

\* the assertion made when no obs_id is given: the table holds one ID
SingleID(rows) == Cardinality(IDsOf(rows)) = 1

\* Report.to_wrf_nudging(fname, overwrite, obs_id) on a Report whose fields
\* are df and obs, fname being the file `file`: [exc, out, obs, file]
to_wrf_nudging(df, obs, file, overwrite, obs_id) ==
    LET same(exc, out) == [exc |-> exc, out |-> out, obs |-> obs, file |-> file]
        id   == IF obs_id = NoID THEN df.rows[1].ID ELSE obs_id.s
        sel  == IF obs_id = NoID THEN df.rows
                ELSE SelectSeq(df.rows, LAMBDA r : r.ID = obs_id.s)
        rows == [k \in 1..Len(sel) |->
                    [datetime |-> sel[k].datetime, v |-> Filled(sel[k].v)]]
        written(meta, w) ==
            [exc |-> w.exc, out |-> << >>, obs |-> SetItem(obs, id, meta),
             file |-> [exists |-> TRUE, blocks |-> w.blocks]]
    IN  IF df.none THEN same("TypeError", << >>)
        ELSE IF \A k \in 1..Len(df.columns) : df.columns[k] # "Pressure (Pa)"
        THEN same("KeyError", << >>)
        ELSE IF \E k \in 1..Len(df.rows) : isna(df.rows[k].v["Pressure (Pa)"])
        THEN same("", << "Need to estimate pressure values for nudging to work" >>)
        ELSE IF file.exists /\ ~overwrite
        THEN same("", << "Output file already exists" >>)
        ELSE IF obs_id = NoID /\ ~SingleID(df.rows)
        THEN same("AssertionError", << >>)
        ELSE IF id \notin DOMAIN obs
        THEN same("KeyError", << >>)
        ELSE With2(Truncated(obs[id]), rows, LAMBDA meta, filled :
                 written(meta, WriteBlocks(meta, filled, UniqueTimes(filled), 1)))

(***************************************************************************)
(* The state: one Report object and the files it reads and writes; one     *)
(* field of a record layout being encoded and decoded; one InputFile       *)
(***************************************************************************)
VARIABLES
    df,               \* Report.df: NoFrame (None) or a DataFrame
    obs,              \* Report.obs: ID -> header dict
    header_defaults,  \* Report.header_defaults: header field -> default value
    infile,           \* the lines of the input file on disk
    outfile,          \* the output file on disk: [exists, blocks]
    call,             \* the last call on the Report and how it ended
    field,            \* a field of a layout, its text and its value
    inputfile,        \* an OpenFOAM input file and the InputFile made of it
    parser,           \* the construction of an InputFile, loop pass by loop pass
    fast              \* an OpenFAST driver, its calls and the processes it starts

vars == << df, obs, header_defaults, infile, outfile, call, field, inputfile, parser, fast >>

\* what is not part of the Report
others == << field, inputfile, parser, fast >>

NoField == [step |-> "none"]

NoInputFile == [step |-> "none"]

NoParser == [step |-> "none"]

NoFast == [step |-> "none"]

Absent == [exists |-> FALSE, blocks |-> << >>]

\* args are the arguments that take part in what the call does
Call(op, args, exc, out) == [op |-> op, args |-> args, exc |-> exc, out |-> out]

\* the module-level header_defaults
module_defaults ==
    [key \in {"ID", "Name", "FM-Code", "Sequence number", "Num. duplicates",
              "Is sounding?", "Is bogus?", "Discard?"} |->
        CASE key = "ID"              -> [s |-> "Observation ID Here"]
          [] key = "Name"            -> [s |-> "Observation Name Here"]
          [] key = "FM-Code"         -> [s |-> "FM-35"]
          [] key = "Sequence number" -> [i |-> 0]
          [] key = "Num. duplicates" -> NaN
          [] key = "Is sounding?"    -> [b |-> TRUE]
          [] key = "Is bogus?"       -> [b |-> FALSE]
          [] key = "Discard?"        -> [b |-> FALSE]]

\* self.header_defaults as Report.__init__ leaves it
InitialDefaults ==
    [key \in KeySet(header_records) |->
        IF key \in DOMAIN module_defaults THEN module_defaults[key]
        ELSE CASE header_dtypes[key] = "str"     -> [s |-> "DEFAULT"]
               [] header_dtypes[key] = "boolean" -> [b |-> FALSE]
               [] OTHER                          -> NaN]

\* Report() with no file name, and an input file on disk
Init ==
    /\ df = NoFrame
    /\ obs = EmptyDict
    /\ header_defaults = InitialDefaults
    /\ infile \in Files
    /\ outfile = Absent
    /\ call = Call("__init__", << >>, "", << >>)
    /\ field = NoField
    /\ inputfile = NoInputFile
    /\ parser = NoParser
    /\ fast = NoFast

\* report.read(fname)
Read ==
    \E r \in { read(infile, df, obs) } :
        /\ df' = r.df
        /\ obs' = r.obs
        /\ call' = Call("read", << >>, r.exc, r.out)
        /\ UNCHANGED << header_defaults, infile, outfile >>
        /\ UNCHANGED others

\* the keyword arguments init and add are called with
KeywordArgs == { EmptyDict, [key \in {"ID"} |-> [s |-> ShortID]] }

Update(d, kw) == [key \in DOMAIN d \cup DOMAIN kw |-> IF key \in DOMAIN kw THEN kw[key] ELSE d[key]]

\* report.init(**defaults)
InitFrame ==
    \E defaults \in KeywordArgs :
        /\ header_defaults' = Update(header_defaults, defaults)
        /\ df' = DataFrame(<< >>, << >>)
        /\ call' = Call("init", << >>, "", << >>)
        /\ UNCHANGED << obs, infile, outfile >>
        /\ UNCHANGED others

\* the assertion init's users share: the report has a DataFrame
AssertFrame(frame, message) ==
    IF frame.none THEN [exc |-> "AssertionError", out |-> << message >>]
    ELSE [exc |-> "", out |-> << >>]

\* report.add(datetime, **headerfields): the header it builds is dropped
Add ==
    \E headerfields \in KeywordArgs :
        LET a == AssertFrame(df, "Obs report has not been initialized; call init()")
        IN  /\ call' = Call("add", << >>, a.exc, a.out)
            /\ UNCHANGED << df, obs, header_defaults, infile, outfile >>
            /\ UNCHANGED others

\* report.to_little_r(fname, overwrite)
ToLittleR ==
    \E overwrite \in BOOLEAN :
        LET a == AssertFrame(df, "Obs report has not been created or read")
        IN  /\ call' = Call("to_little_r", << >>, a.exc, a.out)
            /\ UNCHANGED << df, obs, header_defaults, infile, outfile >>
            /\ UNCHANGED others

\* the obs_id arguments: none, or an ID of the input files
ObsIDs == { NoID, [s |-> LongID], [s |-> ShortID] }

\* report.to_wrf_nudging(fname, overwrite, obs_id)
ToWrfNudging ==
    \E overwrite \in BOOLEAN, obs_id \in ObsIDs :
        \E r \in { to_wrf_nudging(df, obs, outfile, overwrite, obs_id) } :
            /\ obs' = r.obs
            /\ outfile' = r.file
            /\ call' = Call("to_wrf_nudging", << overwrite, obs_id >>, r.exc, r.out)
            /\ UNCHANGED << df, header_defaults, infile >>
            /\ UNCHANGED others

Next == Read \/ InitFrame \/ Add \/ ToLittleR \/ ToWrfNudging

Spec == Init /\ [][Next]_vars

(***************************************************************************)
(* What an input file holds, read off its lines                            *)
(***************************************************************************)
\* the positions of the header lines
HeaderLines(f) == {k \in 1..Len(f) : f[k] \in Headers}

\* the positions of the terminator lines
TerminatorLines(f) == {k \in 1..Len(f) : f[k] = TerminatorLine}

\* the positions at which a trailer line is read: after each terminator,
\* also past the end of the file
TrailerLines(f) == {k + 1 : k \in TerminatorLines(f)}

\* the positions of the data lines
DataLines(f) ==
    {k \in 1..Len(f) : /\ f[k] \notin Headers \cup {TerminatorLine}
                       /\ (k - 1) \notin TerminatorLines(f)}

TokenCount(f, k) == Len(Tokens[readline(f, k)])

BadTrailers(f) == {k \in TrailerLines(f) : TokenCount(f, k) # 3}

\* every block is a header, data lines, a terminator and a three-token trailer
Framed(f) == f # << >> /\ BadTrailers(f) = {}

\* the lines with a field whose text does not convert to the field's type
Undecodable(f) ==
    {k \in HeaderLines(f) : HeaderFields[f[k]].out # << >>}
        \cup {k \in DataLines(f) : DataFields[f[k]].out # << >>}

\* the data lines whose first column does not convert
NoFirstColumn(f) == {k \in DataLines(f) : firstcol \notin DOMAIN DataFields[f[k]].rec}

WellFormed(f) == Framed(f) /\ Undecodable(f) = {}

\* the first thing wrong with the file is a trailer
TrailerFault(f) ==
    /\ BadTrailers(f) # {}
    /\ \A k \in NoFirstColumn(f) : k > Least(BadTrailers(f))

HeaderID(f, k) == HeaderFields[f[k]].rec["ID"].s

HeaderIDs(f) == {HeaderID(f, k) : k \in HeaderLines(f)}

\* the first header of the file that carries the ID
FirstHeader(f, id) ==
    HeaderFields[f[Least({k \in HeaderLines(f) : HeaderID(f, k) = id})]].rec

\* the header of the block that line k is in
HeaderAbove(f, k) == HeaderFields[f[Greatest({j \in HeaderLines(f) : j < k})]].rec

\* YYYYMMDDHHMMSS as a timestamp
ParsedDate(text) ==
    [date |-> DigitsValue(Take(text, 8)), time |-> DigitsValue(Drop(text, 8))]

(***************************************************************************)
(* What a call left behind                                                 *)
(***************************************************************************)
ReadDone == call.op = "read" /\ call.exc = ""

\* to_wrf_nudging ran to its end and wrote the output file
Exported == call.op = "to_wrf_nudging" /\ call.exc = "" /\ call.out = << >>

\* the ID whose rows the last to_wrf_nudging selected
ExportedID == IF call.args[2] = NoID THEN df.rows[1].ID ELSE call.args[2].s

\* the rows of the table with the exported ID
SelectedRows == {k \in 1..Len(df.rows) : df.rows[k].ID = ExportedID}

SelectedTimes == {df.rows[k].datetime : k \in SelectedRows}

\* the timestamp on the first line of a block of the output file
BlockTime(block) == ParsedDate(strip(block[1]))

\* the level count that ends the fourth line of a block of the output file
LevelCount(block) == DigitsValue(strip(Drop(block[4], Len(block[4]) - 4)))

\* the header flag, as decoded or as the text written to the output file
IsSounding(meta) == meta["Is sounding?"] \in {[b |-> TRUE], [s |-> "T"]}

MultiID == ~df.none /\ Cardinality(IDsOf(df.rows)) > 1

PressureMissing == \E k \in 1..Len(df.rows) : isna(df.rows[k].v["Pressure (Pa)"])

(***************************************************************************)
(* Properties                                                              *)
(***************************************************************************)

\* C1: after a read on a Report with an empty ID-to-header mapping, the
\* mapping has one entry per distinct ID of the file's header lines, and the
\* entry of an ID is the first header of the file with that ID.
C1_OneEntryPerID ==
    [][(call'.op = "read" /\ call'.exc = "" /\ obs = EmptyDict) =>
          /\ DOMAIN obs' = HeaderIDs(infile)
          /\ \A id \in DOMAIN obs' : obs'[id] = FirstHeader(infile, id)]_vars

\* C2: after a read of a well-formed file the table has one row per data
\* line, in file order, and no row is a terminator line (first data column
\* equal to ending_record_value) or a trailer line.
C2_RowPerDataLine ==
    (call.op = "read" /\ WellFormed(infile)) =>
        /\ call.exc = ""
        /\ Len(df.rows) = Cardinality(DataLines(infile))
        /\ \A n \in 1..Len(df.rows) :
              /\ df.rows[n].v = FrameRow(DataFields[infile[Nth(DataLines(infile), n)]].rec)
              /\ ~PyEqualsInt(df.rows[n].v[firstcol], ending_record_value)

\* a read of a well-formed file of two blocks with two data lines each
C2_Witness ==
    /\ call.op = "read"
    /\ WellFormed(infile)
    /\ Cardinality(HeaderLines(infile)) = 2
    /\ Cardinality(DataLines(infile)) = 4
    /\ Len(df.rows) = 4

\* C3: after a read every row carries the ID and the timestamp (the Date
\* parsed as YYYYMMDDHHMMSS) of the header line of its own block, also when
\* blocks share an ID or a timestamp.
C3_RowsTaggedByOwnHeader ==
    ReadDone =>
        /\ Len(df.rows) = Cardinality(DataLines(infile))
        /\ \A n \in 1..Len(df.rows) :
              LET h == HeaderAbove(infile, Nth(DataLines(infile), n))
              IN  /\ df.rows[n].ID = h["ID"].s
                  /\ df.rows[n].datetime = ParsedDate(h["Date"].s)

\* a read of two blocks with rows that share an ID and differ in timestamp
C3_Witness ==
    /\ ReadDone
    /\ Len(df.rows) = 4
    /\ df.rows[1].ID = df.rows[3].ID
    /\ df.rows[1].datetime # df.rows[3].datetime

\* C4: a read of a file in which a field of a header line or of a data line
\* does not convert reports the field and raises nothing: every data line
\* still yields a row.
C4_BadFieldNeverRaises ==
    (call.op = "read" /\ Framed(infile) /\ Undecodable(infile) # {}) =>
        /\ call.exc = ""
        /\ call.out # << >>
        /\ Len(df.rows) = Cardinality(DataLines(infile))

\* C5: a read that meets a trailer line with a token count other than three
\* (none at the end of the file) ends in AssertionError and stores no table;
\* a read of a file whose trailers all have three tokens does not.
C5_TrailerOfThreeTokens ==
    [][call'.op = "read" =>
          /\ TrailerFault(infile) => (call'.exc = "AssertionError" /\ df' = df)
          /\ Framed(infile) => call'.exc # "AssertionError"]_vars

\* a read that failed at a trailer of two tokens
C5_Witness ==
    /\ call.op = "read"
    /\ TrailerFault(infile)
    /\ TokenCount(infile, Least(BadTrailers(infile))) = 2
    /\ call.exc = "AssertionError"
    /\ df.none

\* C6: an export on a Report on which neither read nor init was called is
\* reported and does nothing: nothing is raised, no file is written and the
\* Report is unchanged.
C6_ExportBeforeReadIsNoOp ==
    [][(df.none /\ obs = EmptyDict /\ call'.op \in {"to_wrf_nudging", "to_little_r"}) =>
          /\ call'.exc = ""
          /\ call'.out # << >>
          /\ outfile' = outfile
          /\ df' = df /\ obs' = obs /\ header_defaults' = header_defaults]_vars

\* C7: to_wrf_nudging leaves the table and every header of the ID-to-header
\* mapping as they were before the call.
C7_ExportIsPureReader ==
    [][call'.op = "to_wrf_nudging" => (df' = df /\ obs' = obs)]_vars

\* C8: in the file to_wrf_nudging wrote, the level count of each block is 1
\* when the header's 'Is sounding?' flag is false and the number of rows at
\* the block's timestamp when it is true.
C8_LevelCount ==
    Exported =>
        \A n \in 1..Len(outfile.blocks) :
            LET block  == outfile.blocks[n]
                rowsat == {k \in SelectedRows : df.rows[k].datetime = BlockTime(block)}
            IN  LevelCount(block) =
                    IF IsSounding(obs[ExportedID]) THEN Cardinality(rowsat) ELSE 1

\* C9: the file to_wrf_nudging wrote has one block per distinct timestamp of
\* the selected rows, in ascending order of timestamp.
C9_BlocksAscending ==
    Exported =>
        /\ Len(outfile.blocks) = Cardinality(SelectedTimes)
        /\ {BlockTime(outfile.blocks[n]) : n \in 1..Len(outfile.blocks)} = SelectedTimes
        /\ \A m, n \in 1..Len(outfile.blocks) :
              m < n => TimeLess(BlockTime(outfile.blocks[m]), BlockTime(outfile.blocks[n]))

\* C10 as stated: to_wrf_nudging without obs_id on a table with rows of more
\* than one ID raises, and the output file is as before.
C10_AsStated ==
    [][(call'.op = "to_wrf_nudging" /\ call'.args[2] = NoID /\ MultiID) =>
          (call'.exc = "AssertionError" /\ outfile' = outfile)]_vars

\* C10: to_wrf_nudging without obs_id on a table with rows of more than one
\* ID leaves the output file as it was; it raises AssertionError when no
\* pressure is missing and the output file is absent or may be overwritten,
\* and otherwise returns after reporting the missing pressure or the
\* existing file.
C10_MultiIDWritesNothing ==
    [][(call'.op = "to_wrf_nudging" /\ call'.args[2] = NoID /\ MultiID) =>
          /\ outfile' = outfile
          /\ IF PressureMissing
             THEN call'.exc = "" /\ call'.out # << >>
             ELSE IF outfile.exists /\ ~call'.args[1]
             THEN call'.exc = "" /\ call'.out # << >>
             ELSE call'.exc = "AssertionError"]_vars

\* to_wrf_nudging without obs_id raised on a table of two IDs
C10_Witness ==
    /\ call.op = "to_wrf_nudging"
    /\ call.args[2] = NoID
    /\ MultiID
    /\ ~PressureMissing
    /\ call.exc = "AssertionError"

(***************************************************************************)
(* One field of a record layout: its text decoded as a line of the layout  *)
(* is decoded, and its value encoded by the format that __init__ derives   *)
(* for the field                                                           *)
(***************************************************************************)
Layouts == {"header", "data"}

RecordsOf(layout) == IF layout = "header" THEN header_records ELSE data_records

DtypesOf(layout) == IF layout = "header" THEN header_dtypes ELSE data_dtypes

FieldlenOf(layout) == IF layout = "header" THEN header_fieldlen ELSE data_fieldlen

\* the texts found in the columns of a field
FieldInputTexts == {"-888888", "-888888.00000", "-888887", "T"}

\* the values of each type that are encoded
FieldInputValues(dtype) ==
    CASE dtype = "str"     -> {[s |-> "KSEA"], [s |-> ""]}
      [] dtype = "boolean" -> {[b |-> TRUE], [b |-> FALSE]}
      [] dtype = "int"     -> {[i |-> 0], [i |-> 7], [i |-> 0 - 12]}
      [] dtype = "float"   -> {Float(FALSE, 47, 45000), Float(TRUE, 122, 31000),
                               Float(FALSE, 0, 0)}

\* the fields of the two layouts
LayoutFields ==
    UNION { { [layout |-> l, key |-> key] : key \in KeySet(RecordsOf(l)) } :
            l \in Layouts }

\* a field and the text in its columns, or the value to encode for it
FieldCases ==
    { [step |-> "text", layout |-> c.layout, key |-> c.key, text |-> t,
       value |-> None, exc |-> "", decoded |-> None, record |-> None] :
          c \in LayoutFields, t \in FieldInputTexts }
    \cup UNION { { [step |-> "value", layout |-> c.layout, key |-> c.key,
                    text |-> "", value |-> v, exc |-> "", decoded |-> None,
                    record |-> None] :
                       v \in FieldInputValues(DtypesOf(c.layout)[c.key]) } :
                 c \in LayoutFields }

\* a line of the layout with `text` in the columns of the field `key`
LineWith(layout, key, text) ==
    FormatFrom(RecordsOf(layout),
               FieldTexts(RecordsOf(layout), [k \in {key} |-> text]), 1)

\* rec[key] of a decoded record, ValueError standing for a key left out
Decoded(d, key) == IF key \in DOMAIN d.rec THEN d.rec[key] ELSE ValueError

\* the type letter of the format: a and l become s, i becomes d, every
\* other letter is kept
FormatCode(rec) ==
    With(lower(Take(rec, 1)), LAMBDA dtype :
        IF dtype \in {"a", "l"} THEN "s" ELSE IF dtype = "i" THEN "d" ELSE dtype)

\* the width and the precision of the format rec[1:]+dtype; no width is
\* width 0, and only the f formats of the layouts have a precision
FormatWidth(rec) ==
    With2(Drop(rec, 1), IndexIn(".", Drop(rec, 1), 1), LAMBDA spec, dot :
        DigitsValue(IF dot = 0 THEN spec ELSE Take(spec, dot - 1)))

FormatPrecision(rec) ==
    With2(Drop(rec, 1), IndexIn(".", Drop(rec, 1), 1), LAMBDA spec, dot :
        DigitsValue(Drop(spec, dot)))

\* ('{:'+rec[1:]+dtype+'}').format(v): [exc, text]
Encode(rec, v) ==
    With2(FormatCode(rec), FormatWidth(rec), LAMBDA code, width :
        CASE code = "s" ->
                 IF IsStr(v) THEN [exc |-> "", text |-> ljust(v.s, width)]
                 ELSE [exc |-> "ValueError", text |-> ""]
          [] code = "d" ->
                 IF IsInt(v) THEN [exc |-> "", text |-> rjust(ToString(v.i), width)]
                 ELSE IF IsBool(v)
                 THEN [exc |-> "", text |-> rjust(IF v.b THEN "1" ELSE "0", width)]
                 ELSE [exc |-> "ValueError", text |-> ""]
          [] OTHER ->
                 IF IsStr(v) THEN [exc |-> "ValueError", text |-> ""]
                 ELSE [exc |-> "", text |-> FormatF(v, width, FormatPrecision(rec))])

\* a Report, and a field of its layouts
FieldInit ==
    /\ df = NoFrame
    /\ obs = EmptyDict
    /\ header_defaults = InitialDefaults
    /\ infile = << >>
    /\ outfile = Absent
    /\ call = Call("__init__", << >>, "", << >>)
    /\ field \in FieldCases
    /\ inputfile = NoInputFile
    /\ parser = NoParser
    /\ fast = NoFast

\* the loop of _read_header or _read_data over a line that has the text in
\* the columns of the field
DecodeField ==
    /\ field.step = "text"
    /\ \E d \in { DecodeLine(LineWith(field.layout, field.key, field.text),
                             Keys(RecordsOf(field.layout)), DtypesOf(field.layout),
                             FieldlenOf(field.layout)) } :
           field' = [field EXCEPT !.step = "decoded", !.decoded = Decoded(d, field.key),
                                  !.record = d.rec]
    /\ UNCHANGED << df, obs, header_defaults, infile, outfile, call, inputfile, parser, fast >>

\* the value written by the field's part of header_fmt or data_fmt
EncodeField ==
    /\ field.step = "value"
    /\ \E e \in { Encode(RecOf(RecordsOf(field.layout), field.key), field.value) } :
           field' = [field EXCEPT !.step = IF e.exc = "" THEN "encoded" ELSE "failed",
                                  !.text = e.text, !.exc = e.exc]
    /\ UNCHANGED << df, obs, header_defaults, infile, outfile, call, inputfile, parser, fast >>

\* the encoded text read back: the pass of the decode loop for the field
DecodeEncoded ==
    /\ field.step = "encoded"
    /\ \E d \in { DecodeLine(field.text, << field.key >>, DtypesOf(field.layout),
                             FieldlenOf(field.layout)) } :
           field' = [field EXCEPT !.step = "back", !.decoded = Decoded(d, field.key)]
    /\ UNCHANGED << df, obs, header_defaults, infile, outfile, call, inputfile, parser, fast >>

FieldNext == DecodeField \/ EncodeField \/ DecodeEncoded

FieldSpec == FieldInit /\ [][FieldNext]_vars

FieldDtypeOf == DtypesOf(field.layout)[field.key]

\* C11: a numeric (float or integer) field of a header line or of a data
\* line whose trimmed text is -888888 decodes to not-a-number, and a string
\* or logical field is never replaced by not-a-number.
C11_SentinelDecodesToNaN ==
    field.step = "decoded" =>
        /\ (strip(field.text) = "-888888" /\ FieldDtypeOf \in {"int", "float"})
               => field.decoded = NaN
        /\ FieldDtypeOf \in {"str", "boolean"}
               => (~IsError(field.decoded) /\ ~IsNaN(field.decoded))

\* an integer field of the header layout with the text -888888, decoded
C11_Witness ==
    /\ field.step = "decoded"
    /\ field.layout = "header"
    /\ field.text = "-888888"
    /\ FieldDtypeOf = "int"
    /\ field.decoded = NaN

\* C13: for every field of the header and data layouts (types F, I, A and
\* L), encoding a value with the field's format gives a string of exactly
\* the field's width, and decoding that string gives the value back.
C13_RoundTripWidth ==
    field.step \in {"encoded", "failed", "back"} =>
        /\ field.exc = ""
        /\ Len(field.text) = FieldlenOf(field.layout)[field.key]
        /\ field.step = "back" => field.decoded = field.value

\* the same for the fields of types F, I and A only
C13_NotLogical ==
    (field.step \in {"encoded", "failed", "back"} /\ FieldDtypeOf # "boolean") =>
        /\ field.exc = ""
        /\ Len(field.text) = FieldlenOf(field.layout)[field.key]
        /\ field.step = "back" => field.decoded = field.value

\* the text sub occurs in s
Contains(s, sub) ==
    \E k \in 1..(Len(s) - Len(sub) + 1) : SubSeq(s, k, k + Len(sub) - 1) = sub

\* the lines of the output file
OutputLines ==
    UNION { { outfile.blocks[b][k] : k \in 1..Len(outfile.blocks[b]) } :
            b \in 1..Len(outfile.blocks) }

\* the data lines of the output file: those after the four header lines of
\* each block
OutputRows ==
    UNION { { outfile.blocks[b][k] : k \in 5..Len(outfile.blocks[b]) } :
            b \in 1..Len(outfile.blocks) }

\* C12: every not-a-number value that to_wrf_nudging writes, in the data
\* columns and in the header metadata (Latitude, Longitude, Elevation)
\* alike, is written as -888888: the text nan never appears in the output.
C12_NoNaNInOutput ==
    \A line \in OutputLines : ~Contains(line, "nan")

\* the same for the data columns only, which fillna covers
C12_DataColumnsFilled ==
    \A line \in OutputRows : ~Contains(line, "nan")

\* a missing temperature was written as the sentinel
C12_SentinelWritten ==
    \E line \in OutputRows : Contains(line, "-888888.000")

(***************************************************************************)
(* Python string methods used by InputFile.  Positions are Python's: the   *)
(* first character is at 0, find gives -1 when there is no occurrence, and *)
(* a negative bound of a slice counts from the end.                        *)
(***************************************************************************)
\* the column a slice bound i stands for
Bound(s, i) == IF i < 0 THEN Max(0, Len(s) + i) ELSE Min(i, Len(s))

\* s[a:b]
Slice(s, a, b) == SubSeq(s, Bound(s, a) + 1, Bound(s, b))

\* s[a:]
SliceFrom(s, a) == SubSeq(s, Bound(s, a) + 1, Len(s))

\* s[:b]
SliceTo(s, b) == SubSeq(s, 1, Bound(s, b))

\* s.find(sub, start)
find(str, sub, start) ==
    With(str, LAMBDA s :
    With({k \in start..(Len(s) - Len(sub)) : SubSeq(s, k + 1, k + Len(sub)) = sub},
         LAMBDA found : IF found = {} THEN 0 - 1 ELSE Least(found)))

startswith(s, sub) == Len(s) >= Len(sub) /\ SubSeq(s, 1, Len(sub)) = sub

endswith(s, sub) == Len(s) >= Len(sub) /\ SubSeq(s, Len(s) - Len(sub) + 1, Len(s)) = sub

\* s.count(c) for one character c
count(str, c) == With(str, LAMBDA s : Cardinality({k \in 1..Len(s) : Char(s, k) = c}))

\* s.replace(old, new) for one character old
RECURSIVE replace(_, _, _)
replace(str, old, new) ==
    With(str, LAMBDA s :
        IF s = "" THEN ""
        ELSE (IF Char(s, 1) = old THEN new ELSE Char(s, 1))
                 \o replace(Drop(s, 1), old, new))

\* re.sub(' +', ' ', s)
RECURSIVE sub_spaces(_)
sub_spaces(str) ==
    With(str, LAMBDA s :
        IF Len(s) < 2 THEN s
        ELSE IF Char(s, 1) = " " /\ Char(s, 2) = " " THEN sub_spaces(Drop(s, 1))
        ELSE Char(s, 1) \o sub_spaces(Drop(s, 1)))

\* s.strip(c) for one character c
strip_char(s, c) ==
    With({i \in 1..Len(s) : Char(s, i) # c}, LAMBDA keep :
        IF keep = {} THEN "" ELSE SubSeq(s, Least(keep), Greatest(keep)))

\* sep.join(lines)
RECURSIVE join(_, _)
join(sep, lines) ==
    IF Len(lines) = 0 THEN ""
    ELSE IF Len(lines) = 1 THEN lines[1]
    ELSE lines[1] \o sep \o join(sep, Tail(lines))

(***************************************************************************)
(* sowfa.utils.InputFile.  A dict is [dict |-> the (key, value) pairs in   *)
(* insertion order], a list is [list |-> its items]; a key is [s |-> name] *)
(* or None.                                                                *)
(***************************************************************************)
\* block_defs: the closer and the container type of an opener
block_defs ==
    << [start |-> "{", end |-> "}", type |-> "dict"],
       [start |-> "(", end |-> ")", type |-> "list"] >>

true_values == {"true", "t", "on", "yes", "y"}

\* false_values without its last word
false_values_without_none == {"false", "f", "off", "no", "n"}

false_values == {"false", "f", "off", "no", "n", "none"}

\* containertype()
NewContainer(type) == IF type = "dict" THEN [dict |-> << >>] ELSE [list |-> << >>]

IsDict(v) == DOMAIN v = {"dict"}

\* parent[name] = v for a dict, parent.append(v) for a list
StoreIn(parent, name, v) ==
    IF IsDict(parent)
    THEN With({k \in 1..Len(parent.dict) : parent.dict[k][1] = name}, LAMBDA at :
             IF at = {} THEN [dict |-> Append(parent.dict, << name, v >>)]
             ELSE [dict |-> [k \in 1..Len(parent.dict) |->
                               IF k \in at THEN << name, v >> ELSE parent.dict[k]]])
    ELSE [list |-> Append(parent.list, v)]

\* the block of block_defs that a character opens, 0 if none
BlockOf(blockstart) ==
    With({k \in 1..Len(block_defs) : block_defs[k].start = blockstart}, LAMBDA b :
        IF b = {} THEN 0 ELSE Least(b))

\* the loop `while Nopen != Nclose`: the end of the block is moved to the
\* next closer found from idx+1 on, until the counts agree
RECURSIVE FindBlockEnd(_, _, _, _)
FindBlockEnd(txt, block, idx, blockdef) ==
    IF count(blockdef, block.start) = count(blockdef, block.end)
    THEN [idx |-> idx, blockdef |-> blockdef]
    ELSE With(find(txt, block.end, idx + 1) + 1, LAMBDA next :
             FindBlockEnd(txt, block, next, strip(SliceTo(txt, next))))

\* a variant of SplitOne that takes every word as a scalar value
SplitOneLenient(name, txt) ==
    With(find(txt, " ", 0), LAMBDA idx :
        [exc |-> "",
         def |-> [name |-> name,
                  line |-> replace(IF idx < 0 THEN txt ELSE SliceTo(txt, idx), ";", ""),
                  type |-> "none"],
         txt |-> IF idx < 0 THEN "" ELSE strip(SliceFrom(txt, idx + 1))])

\* one pass of the loop of _split_defs over the words left of txt, after
\* the name was taken: [exc, def, txt], def the definition found
SplitOne(name, txt) ==
    With(find(txt, " ", 0), LAMBDA idx :
    With2(IF idx < 0 THEN txt ELSE strip(SliceTo(txt, idx)),
          IF idx < 0 THEN "" ELSE txt, LAMBDA string, rest :
        IF endswith(string, ";")
        THEN [exc |-> "",
              def |-> [name |-> name, line |-> SliceTo(string, 0 - 1), type |-> "none"],
              txt |-> strip(SliceFrom(rest, idx + 1))]
        ELSE IF string = ""
        THEN [exc |-> "IndexError", def |-> None, txt |-> ""]
        ELSE With(BlockOf(Char(string, 1)), LAMBDA b :
            IF b = 0
            THEN [exc |-> "AssertionError: Unknown input block", def |-> None, txt |-> ""]
            ELSE With(find(rest, block_defs[b].end, 0) + 1, LAMBDA end :
                IF ~(end > 0)
                THEN [exc |-> "AssertionError: Mismatched input block",
                      def |-> None, txt |-> ""]
                ELSE With(FindBlockEnd(rest, block_defs[b], end,
                                       sub_spaces(strip(SliceTo(rest, end)))),
                          LAMBDA found :
                    [exc |-> "",
                     def |-> [name |-> name, line |-> found.blockdef,
                              type |-> block_defs[b].type],
                     txt |-> strip(SliceFrom(rest, found.idx + 1))])))))

\* _split_defs(txt): [exc, defs], defs the (name, line, container) found
RECURSIVE _split_defs(_)
_split_defs(txt) ==
    IF Len(txt) = 0 THEN [exc |-> "", defs |-> << >>]
    ELSE With(IF Char(txt, 1) = "("
              THEN SplitOne(None, txt)
              ELSE With(find(txt, " ", 0), LAMBDA idx :
                       SplitOne([s |-> SliceTo(txt, idx)],
                                strip(SliceFrom(txt, idx + 1)))),
              LAMBDA one :
             IF one.exc # "" THEN [exc |-> one.exc, defs |-> << >>]
             ELSE With(_split_defs(one.txt), LAMBDA more :
                      IF more.exc # "" THEN more
                      ELSE [exc |-> "", defs |-> << one.def >> \o more.defs]))

\* the value of a scalar definition: float first, then the boolean words,
\* then the text without the quotes at its ends
Scalar(defn) ==
    With(py_float(defn), LAMBDA number :
        IF ~IsError(number) THEN number
        ELSE IF lower(defn) \in true_values THEN [b |-> TRUE]
        ELSE IF lower(defn) \in false_values THEN [b |-> FALSE]
        ELSE [s |-> strip_char(strip_char(defn, "\""), "'")])

\* the definitions a list without inner parentheses holds: its words
Words(newdefn) ==
    With(split(newdefn), LAMBDA vals :
        [exc |-> "",
         defs |-> [k \in 1..Len(vals) |->
                      [name |-> None, line |-> vals[k], type |-> "none"]]])

\* _parse(name, defn, containertype, parent): [exc, parent], parent as the
\* call leaves it; ParseAll is the loop that calls _parse for each
\* definition in turn
RECURSIVE _parse(_, _, _, _), ParseAll(_, _, _)
_parse(name, defn0, containertype, parent) ==
    With(strip(defn0), LAMBDA defn :
        IF containertype = "none"
        THEN IF ~(find(defn, " ", 0) < 0)
             THEN [exc |-> "AssertionError", parent |-> parent]
             ELSE [exc |-> "", parent |-> StoreIn(parent, name, Scalar(defn))]
        ELSE With(strip(Slice(defn, 1, 0 - 1)), LAMBDA newdefn :
             With(IF containertype = "list" /\ find(newdefn, "(", 0) < 0
                                           /\ find(newdefn, ")", 0) < 0
                  THEN Words(newdefn) ELSE _split_defs(newdefn), LAMBDA split_defs :
                 IF split_defs.exc # "" THEN [exc |-> split_defs.exc, parent |-> parent]
                 ELSE With(ParseAll(split_defs.defs, 1, NewContainer(containertype)),
                           LAMBDA filled :
                          IF filled.exc # "" THEN [exc |-> filled.exc, parent |-> parent]
                          ELSE [exc |-> "",
                                parent |-> StoreIn(parent, name, filled.parent)]))))

ParseAll(defs, k, parent) ==
    IF k > Len(defs) THEN [exc |-> "", parent |-> parent]
    ELSE With(_parse(defs[k].name, defs[k].line, defs[k].type, parent), LAMBDA done :
             IF done.exc # "" THEN done ELSE ParseAll(defs, k + 1, done.parent))

\* f.readlines() of a text file with the given lines
readlines(f) == [i \in 1..Len(f) |-> f[i] \o "\n"]

\* a variant of TrimLine that cuts no line
TrimLineKeepingComments(line0) ==
    IF startswith(strip(line0), "#") THEN "" ELSE line0

\* the loop over the lines: a directive is blanked, a line with // is cut
\* there, any other line is left as it was read
TrimLine(line0) ==
    With(strip(line0), LAMBDA line :
        IF startswith(line, "#") THEN ""
        ELSE With(find(line, "//", 0), LAMBDA idx :
                 IF idx >= 0 THEN strip(SliceTo(line, idx)) ELSE line0))

\* the loop that removes the block comments: [exc, txt]
RECURSIVE TrimBlockComments(_)
TrimBlockComments(txt) ==
    With(find(txt, "/*", 0), LAMBDA idx0 :
        IF ~(idx0 >= 0) THEN [exc |-> "", txt |-> txt]
        ELSE With(find(txt, "*/", idx0 + 1), LAMBDA idx1 :
                 IF ~(idx1 > idx0)
                 THEN [exc |-> "AssertionError: Mismatched comment block", txt |-> txt]
                 ELSE TrimBlockComments(SliceTo(txt, idx0) \o SliceFrom(txt, idx1 + 2))))

NoProperties == [dict |-> << >>]

\* InputFile(fpath) for a file with the lines f: [exc, _properties]
InputFile(f) ==
    With(readlines(f), LAMBDA lines :
    With(TrimBlockComments(join("\n", [i \in 1..Len(lines) |-> TrimLine(lines[i])])),
         LAMBDA trimmed :
        IF trimmed.exc # "" THEN [exc |-> trimmed.exc, _properties |-> NoProperties]
        ELSE With(_split_defs(strip(replace(replace(trimmed.txt, "\n", " "), "\t", " "))),
                  LAMBDA split_defs :
                 IF split_defs.exc # ""
                 THEN [exc |-> split_defs.exc, _properties |-> NoProperties]
                 ELSE With(ParseAll(split_defs.defs, 1, NoProperties), LAMBDA parsed :
                          [exc |-> parsed.exc,
                           _properties |-> IF parsed.exc # "" THEN NoProperties
                                           ELSE parsed.parent]))))

\* self._properties[key], KeyError for a key the dict lacks
getitem(properties, key) ==
    With({k \in 1..Len(properties.dict) : properties.dict[k][1] = key}, LAMBDA at :
        IF at = {} THEN [err |-> "KeyError"] ELSE properties.dict[Least(at)][2])

(***************************************************************************)
(* Input files of InputFile                                                *)
(***************************************************************************)
\* lines that files of several lines are made of
InputLines ==
    { "x 1;",
      "x 1; // comment with ( unbalanced paren",
      "a (b (c d);",
      "d {k on;",
      "}",
      "a b c;",
      "a 1 ;",
      "y 2; /* ( ; */ z 3;",
      "y 2; /* // */ z 3;",
      "q /*",
      "*/ w 4;",
      "#include r" }

\* the words of scalar definitions
ScalarTokens ==
    { "0", "1", "nan", "inf", "-1.5", "+.5", "NaN", "-Infinity",
      "true", "t", "on", "yes", "y", "True", "T", "ON", "Yes", "Y",
      "false", "f", "off", "no", "n", "none", "False", "F", "Off", "NO", "N", "None",
      "abc", "yess", "2x", "-", "\"abc\"", "'abc'", "''abc''", "\"'abc'\"" }

ScalarLine(token) == "k " \o token \o ";"

\* a list of two parenthesised lists whose last word is w, with gap before
\* the last closing parenthesis
NestedLine(w, gap) == "a (b (c d) (e " \o w \o ")" \o gap \o ");"

NestedLines == { NestedLine(w, gap) : w \in {"f", "g"}, gap \in {"", " "} }

\* a dict with a string value that holds the delimiter c
QuotedLine(c) == "d { s \"a" \o c \o "\"; t 1; } z 1;"

\* further files of one line
SingleLines ==
    NestedLines
    \cup { ScalarLine(token) : token \in ScalarTokens }
    \cup { "d {a b c;} z 1;", "x 1; /*/ z 3;", "x 1; a b c;", "a (1 2 3); z 1;" }
    \cup { QuotedLine(c) : c \in {"{", "}", "(", ")"} }
    \cup { "a (1 (2 3) 4);", "a (1 (2 3) 4 ); z 1;", "a (1 (2 3) ); z 1;",
           "a ((2 3) (4 5) ); z 1;", "a { { b; } 1;" }

MaxLines == 2

InputFilesOf(n) ==
    UNION { [1..k -> InputLines] : k \in 0..n } \cup { << line >> : line \in SingleLines }

InputFiles == InputFilesOf(MaxLines)

\* the names looked up
LookupKeys == { [s |-> "k"], [s |-> "a"], [s |-> "x"], [s |-> "z"] }

(***************************************************************************)
(* The InputFile made of a file, and what is looked up in it               *)
(***************************************************************************)
InputInit ==
    /\ df = NoFrame
    /\ obs = EmptyDict
    /\ header_defaults = InitialDefaults
    /\ infile = << >>
    /\ outfile = Absent
    /\ call = Call("__init__", << >>, "", << >>)
    /\ field = NoField
    /\ parser = NoParser
    /\ fast = NoFast
    /\ inputfile \in { [step |-> "file", file |-> f, exc |-> "",
                        _properties |-> NoProperties, key |-> None, value |-> None] :
                       f \in InputFiles }

\* InputFile(fpath)
Construct ==
    /\ inputfile.step = "file"
    /\ \E made \in { InputFile(inputfile.file) } :
           inputfile' = [inputfile EXCEPT !.step = "made", !.exc = made.exc,
                                          !._properties = made._properties]
    /\ UNCHANGED << df, obs, header_defaults, infile, outfile, call, field, parser, fast >>

\* inputfile[key]
GetItem ==
    /\ inputfile.step = "made"
    /\ inputfile.exc = ""
    /\ \E key \in LookupKeys :
           inputfile' = [inputfile EXCEPT !.step = "got", !.key = key,
                                          !.value = getitem(inputfile._properties, key)]
    /\ UNCHANGED << df, obs, header_defaults, infile, outfile, call, field, parser, fast >>

InputNext == Construct \/ GetItem

InputSpec == InputInit /\ [][InputNext]_vars

(***************************************************************************)
(* Properties of InputFile                                                 *)
(***************************************************************************)
\* the InputFile call has returned or raised
Made == inputfile.step \in {"made", "got"}

\* the list of the two lists [c, d] and [e, w]
TwoLists(w) ==
    [list |-> << [list |-> << [s |-> "c"], [s |-> "d"] >>],
                 [list |-> << [s |-> "e"], [s |-> w] >>] >>]

\* C14: a named list block whose elements are parenthesised sub-lists is
\* parsed into a list under that name holding the sub-lists in source
\* order: `a (b (c d) (e f));` gives a list a of [c, d] and [e, f], also
\* when the closing parentheses are adjacent.
C14_NestedLists ==
    \A w \in {"f", "g"}, gap \in {"", " "} :
        (Made /\ inputfile.file = << NestedLine(w, gap) >>) =>
            /\ inputfile.exc = ""
            /\ getitem(inputfile._properties, [s |-> "a"]) = TwoLists(w)

\* the same for the one line in which a space parts the closing parentheses
\* and the last word is not a boolean word
C14_PartedAndPlain ==
    (Made /\ inputfile.file = << NestedLine("g", " ") >>) =>
        /\ inputfile.exc = ""
        /\ inputfile._properties.dict = << << [s |-> "a"], TwoLists("g") >> >>

\* no line of the file holds a comment or a directive
CommentFree(f) ==
    \A i \in 1..Len(f) : find(f[i], "/", 0) < 0 /\ find(f[i], "#", 0) < 0

\* the text has more openers of a kind than closers of that kind, so that
\* some opener has no matching closer
UnclosedOpener(text) ==
    \/ count(text, "(") > count(text, ")")
    \/ count(text, "{") > count(text, "}")

\* C15: InputFile fails with a hard failure on every input in which a block
\* opener has no matching closer by the end of the text, also when some
\* closer of the same kind occurs, as in `a (b (c d);`; no tree is made.
C15_UnclosedBlockFails ==
    (Made /\ CommentFree(inputfile.file) /\ UnclosedOpener(join(" ", inputfile.file)))
        => inputfile.exc # ""

\* the same for the files of InputFiles in which no closer of the opener's
\* kind occurs
C15_NoCloserFails ==
    (/\ Made
     /\ CommentFree(inputfile.file)
     /\ \/ count(join(" ", inputfile.file), "(") > 0
              /\ count(join(" ", inputfile.file), ")") = 0
        \/ count(join(" ", inputfile.file), "{") > 0
              /\ count(join(" ", inputfile.file), "}") = 0)
        => inputfile.exc # ""

\* no line of the file holds a block or a quote
Flat(f) ==
    \A i \in 1..Len(f) :
        \A c \in {"(", ")", "{", "}", "\"", "'"} : find(f[i], c, 0) < 0

\* the words of a flat file without comments: names and values in turn
FlatWords(f) == split(join(" ", f))

\* some value word of the flat file does not end with ';'
ValueWithoutSemicolon(f) ==
    \E k \in 1..(Len(FlatWords(f)) \div 2) : ~endswith(FlatWords(f)[2 * k], ";")

\* C16: a definition whose value token neither ends with ';' nor begins
\* with '{' or '(', as in `a b c;` or `a 1 ;`, is a hard failure of
\* _split_defs, and no entry is recorded for it.
C16_UnknownOpenerFails ==
    /\ (Made /\ CommentFree(inputfile.file) /\ Flat(inputfile.file)
             /\ ValueWithoutSemicolon(inputfile.file))
           => (inputfile.exc # "" /\ inputfile._properties = NoProperties)
    /\ (Made /\ inputfile.file = << "d {a b c;} z 1;" >>)
           => (inputfile.exc # "" /\ inputfile._properties = NoProperties)

\* the file `x 1;` then `a 1 ;` was refused with the message of the unknown
\* opener
C16_Witness ==
    /\ inputfile.step = "made"
    /\ inputfile.file = << "x 1;", "a 1 ;" >>
    /\ inputfile.exc = "AssertionError: Unknown input block"

\* the word of the file, when the file is one scalar definition of k
IsScalarFile(token) == inputfile.file = << ScalarLine(token) >>

\* the value is of Python's type float
IsPyFloat(v) == IsFloat(v) \/ IsNaN(v) \/ IsInf(v)

\* C17: a scalar token that is not a floating-point literal decodes to
\* true when its lower-cased text is one of true, t, on, yes, y, to false
\* when it is one of false, f, off, no, n, none, and otherwise to a string;
\* a floating-point literal (0, 1, nan, inf among them) always decodes to
\* a float and never to a boolean.
C17_ScalarDecoding ==
    \A token \in ScalarTokens :
        (inputfile.step = "got" /\ inputfile.key = [s |-> "k"] /\ IsScalarFile(token)) =>
            IF ~IsError(py_float(token)) THEN IsPyFloat(inputfile.value)
            ELSE IF lower(token) \in {"true", "t", "on", "yes", "y"}
                 THEN inputfile.value = [b |-> TRUE]
            ELSE IF lower(token) \in {"false", "f", "off", "no", "n", "none"}
                 THEN inputfile.value = [b |-> FALSE]
            ELSE IsStr(inputfile.value)

\* the literals the claim names decode to floats
C17_NamedLiterals ==
    \A token \in {"0", "1", "nan", "inf"} :
        (inputfile.step = "got" /\ inputfile.key = [s |-> "k"] /\ IsScalarFile(token)) =>
            IsPyFloat(inputfile.value)

\* the word None was read as false, and looked up
C17_Witness ==
    /\ inputfile.step = "got"
    /\ inputfile.key = [s |-> "k"]
    /\ IsScalarFile("None")
    /\ inputfile.value = [b |-> FALSE]

\* C18: a scalar token that is neither numeric nor a boolean word is stored
\* as a string with exactly one layer of surrounding quotes removed: "abc"
\* gives abc, and ''abc'' or "'abc'" keeps its inner layer of quotes.
C18_OneLayerOfQuotes ==
    \A token \in {"\"abc\"", "'abc'", "''abc''", "\"'abc'\""} :
        (inputfile.step = "got" /\ inputfile.key = [s |-> "k"] /\ IsScalarFile(token)) =>
            inputfile.value = [s |-> Slice(token, 1, 0 - 1)]

\* the same for the tokens with one layer of quotes only
C18_SingleLayer ==
    \A token \in {"\"abc\"", "'abc'"} :
        (inputfile.step = "got" /\ inputfile.key = [s |-> "k"] /\ IsScalarFile(token)) =>
            inputfile.value = [s |-> "abc"]

\* the line with other characters after its first //
WithTail(line, tail) ==
    With(find(line, "//", 0), LAMBDA idx :
        IF idx < 0 THEN line ELSE SliceTo(line, idx + 2) \o tail)

\* characters that may follow //
Tails == {"", " ( { /* ;", " */ } ) x 9; \"", "//"}

\* what InputFile(f) raised and made
Outcome(f) ==
    With(InputFile(f), LAMBDA made : << made.exc, made._properties >>)

\* C19: text that follows the first // on a line never influences the
\* parse: two files that differ only in the characters after // on some
\* lines give the same tree, and the line
\* `x 1; // comment with ( unbalanced paren` gives the entry x = 1.
C19_LineCommentsIgnored ==
    /\ Made =>
         \A tail \in Tails :
             << inputfile.exc, inputfile._properties >>
                 = Outcome([i \in 1..Len(inputfile.file) |->
                               WithTail(inputfile.file[i], tail)])
    /\ (Made /\ inputfile.file = << "x 1; // comment with ( unbalanced paren" >>)
           => (/\ inputfile.exc = ""
               /\ inputfile._properties.dict = << << [s |-> "x"], Float(FALSE, 1, 0) >> >>)

\* x was looked up in the InputFile made of a line with a comment that
\* holds an unbalanced parenthesis, after a line without comment
C19_Witness ==
    /\ inputfile.step = "got"
    /\ inputfile.file = << "x 1;", "x 1; // comment with ( unbalanced paren" >>
    /\ inputfile.key = [s |-> "x"]
    /\ inputfile.value = Float(FALSE, 1, 0)

\* the text of a file, its lines parted by line feeds
RawText(f) == join("\n", f)

\* the lines of a text
RECURSIVE SplitLines(_)
SplitLines(text) ==
    With(find(text, "\n", 0), LAMBDA idx :
        IF idx < 0 THEN << text >>
        ELSE << SliceTo(text, idx) >> \o SplitLines(SliceFrom(text, idx + 1)))

\* some /* of the text is followed by no */
RECURSIVE HasUnclosedComment(_)
HasUnclosedComment(text) ==
    With(find(text, "/*", 0), LAMBDA idx0 :
        IF idx0 < 0 THEN FALSE
        ELSE With(find(text, "*/", idx0 + 2), LAMBDA idx1 :
                 IF idx1 < 0 THEN TRUE
                 ELSE HasUnclosedComment(SliceFrom(text, idx1 + 2))))

\* the text without its /*...*/ spans, the first */ after a /* closing it
RECURSIVE DeleteSpans(_)
DeleteSpans(text) ==
    With(find(text, "/*", 0), LAMBDA idx0 :
        IF idx0 < 0 THEN text
        ELSE With(find(text, "*/", idx0 + 2), LAMBDA idx1 :
                 IF idx1 < 0 THEN text
                 ELSE SliceTo(text, idx0) \o DeleteSpans(SliceFrom(text, idx1 + 2))))

\* C20: every /*...*/ span is removed before tokenization, the first */
\* after each /* closing it: the characters inside a block comment (//,
\* braces, parentheses and ; among them) never influence the tree, a file
\* with a block comment parses as the file with that span deleted, and an
\* unclosed /* is a hard failure.
C20_BlockCommentsIgnored ==
    Made =>
        IF HasUnclosedComment(RawText(inputfile.file)) THEN inputfile.exc # ""
        ELSE << inputfile.exc, inputfile._properties >>
                 = Outcome(SplitLines(DeleteSpans(RawText(inputfile.file))))

\* the same for the files in which no line holds // and no /* is closed by
\* a */ that shares its asterisk
C20_WithoutLineComments ==
    (/\ Made
     /\ \A i \in 1..Len(inputfile.file) :
            find(inputfile.file[i], "//", 0) < 0 /\ find(inputfile.file[i], "/*/", 0) < 0)
        => IF HasUnclosedComment(RawText(inputfile.file)) THEN inputfile.exc # ""
           ELSE << inputfile.exc, inputfile._properties >>
                    = Outcome(SplitLines(DeleteSpans(RawText(inputfile.file))))

\* C21: block delimiters inside a quoted string value take no part in the
\* block-balance counting: a dict such as `d { s "a}"; t 1; }` parses to a
\* map d with both entries s and t.
C21_QuotedDelimiters ==
    \A c \in {"{", "}", "(", ")"} :
        (Made /\ inputfile.file = << QuotedLine(c) >>) =>
            /\ inputfile.exc = ""
            /\ getitem(inputfile._properties, [s |-> "d"])
                   = [dict |-> << << [s |-> "s"], [s |-> "a" \o c] >>,
                                  << [s |-> "t"], Float(FALSE, 1, 0) >> >>]

\* the same for the parentheses, which are not the delimiters of the dict
C21_DelimitersOfTheOtherKind ==
    \A c \in {"(", ")"} :
        (Made /\ inputfile.file = << QuotedLine(c) >>) =>
            /\ inputfile.exc = ""
            /\ getitem(inputfile._properties, [s |-> "d"])
                   = [dict |-> << << [s |-> "s"], [s |-> "a" \o c] >>,
                                  << [s |-> "t"], Float(FALSE, 1, 0) >> >>]

\* a list of the scalars and lists given
ListOf(items) == [list |-> items]

\* C28: every element written inside a parenthesised list appears in the
\* parsed list, in source order: `a (1 (2 3) 4);` gives the list of 1,
\* [2, 3] and 4, no scalar being taken as the name of the following
\* sub-list or dropped.
C28_MixedList ==
    /\ \A line \in {"a (1 (2 3) 4);", "a (1 (2 3) 4 ); z 1;"} :
           (Made /\ inputfile.file = << line >>) =>
               /\ inputfile.exc = ""
               /\ getitem(inputfile._properties, [s |-> "a"])
                      = ListOf(<< Float(FALSE, 1, 0),
                                  ListOf(<< Float(FALSE, 2, 0), Float(FALSE, 3, 0) >>),
                                  Float(FALSE, 4, 0) >>)
    /\ (Made /\ inputfile.file = << "a (1 (2 3) ); z 1;" >>) =>
           /\ inputfile.exc = ""
           /\ getitem(inputfile._properties, [s |-> "a"])
                  = ListOf(<< Float(FALSE, 1, 0),
                              ListOf(<< Float(FALSE, 2, 0), Float(FALSE, 3, 0) >>) >>)

\* a list of sub-lists only holds each of them
C28_ListsOnly ==
    (Made /\ inputfile.file = << "a ((2 3) (4 5) ); z 1;" >>) =>
        /\ inputfile.exc = ""
        /\ getitem(inputfile._properties, [s |-> "a"])
               = ListOf(<< ListOf(<< Float(FALSE, 2, 0), Float(FALSE, 3, 0) >>),
                           ListOf(<< Float(FALSE, 4, 0), Float(FALSE, 5, 0) >>) >>)

(***************************************************************************)
(* The construction of an InputFile, one loop pass or call at a time.  The *)
(* stack holds the _split_defs loops and the _parse calls still to run,    *)
(* the one that runs first.                                                *)
(***************************************************************************)
MaxParseLines == 1

ParseFiles == InputFilesOf(MaxParseLines)

\* the text __init__ hands to _split_defs: [exc, txt]
Preprocessed(f) ==
    With(TrimBlockComments(join("\n", [i \in 1..Len(f) |-> TrimLine(readlines(f)[i])])),
         LAMBDA trimmed :
        [exc |-> trimmed.exc,
         txt |-> strip(replace(replace(trimmed.txt, "\n", " "), "\t", " "))])

\* a _split_defs call at the head of its loop; parentlen is the length of
\* the block text of the _parse call that made it, -1 for __init__
SplitFrame(txt, parentlen) ==
    [kind |-> "split", txt |-> txt, defs |-> << >>, parentlen |-> parentlen,
     loop |-> "words", name |-> None, rest |-> "", b |-> 0, idx |-> 0, blockdef |-> ""]

\* a _parse call to make
ParseFrame(def, parentlen) ==
    [kind |-> "parse", defn |-> def.line, type |-> def.type, parentlen |-> parentlen]

\* a variant of NextBlockEnd that stays where it is when no closer is left
NextBlockEndOrStay(txt, block, idx) ==
    With(find(txt, block.end, idx + 1), LAMBDA at : IF at < 0 THEN idx ELSE at + 1)

\* idx = txt.find(blockend, idx+1) + 1
NextBlockEnd(txt, block, idx) == find(txt, block.end, idx + 1) + 1

\* the frame after a definition was appended and the text trimmed
Appended(frame, def, txt) ==
    [frame EXCEPT !.defs = Append(frame.defs, def), !.txt = txt, !.loop = "words"]

\* a pass of the loop of _split_defs up to the search of the first closer,
\* the name taken: [exc, frame]
PassWith(frame, name, txt) ==
    With(find(txt, " ", 0), LAMBDA idx :
    With2(IF idx < 0 THEN txt ELSE strip(SliceTo(txt, idx)),
          IF idx < 0 THEN "" ELSE txt, LAMBDA string, rest :
        IF endswith(string, ";")
        THEN [exc |-> "",
              frame |-> Appended(frame, [name |-> name, line |-> SliceTo(string, 0 - 1),
                                         type |-> "none"],
                                 strip(SliceFrom(rest, idx + 1)))]
        ELSE IF string = "" THEN [exc |-> "IndexError", frame |-> frame]
        ELSE IF BlockOf(Char(string, 1)) = 0
        THEN [exc |-> "AssertionError: Unknown input block", frame |-> frame]
        ELSE With2(BlockOf(Char(string, 1)),
                   find(rest, block_defs[BlockOf(Char(string, 1))].end, 0) + 1,
                   LAMBDA b, end :
                 IF ~(end > 0)
                 THEN [exc |-> "AssertionError: Mismatched input block", frame |-> frame]
                 ELSE [exc |-> "",
                       frame |-> [frame EXCEPT
                                     !.loop = "balance", !.name = name, !.rest = rest,
                                     !.b = b, !.idx = end,
                                     !.blockdef = sub_spaces(strip(SliceTo(rest, end)))]])))

Pass(frame) ==
    IF Char(frame.txt, 1) = "(" THEN PassWith(frame, None, frame.txt)
    ELSE With(find(frame.txt, " ", 0), LAMBDA idx :
             PassWith(frame, [s |-> SliceTo(frame.txt, idx)],
                      strip(SliceFrom(frame.txt, idx + 1))))

\* the frames a _parse call of a container leaves to run
Children(frame) ==
    With(strip(frame.defn), LAMBDA defn :
    With(strip(Slice(defn, 1, 0 - 1)), LAMBDA newdefn :
        IF frame.type = "list" /\ find(newdefn, "(", 0) < 0 /\ find(newdefn, ")", 0) < 0
        THEN [k \in 1..Len(Words(newdefn).defs) |->
                 ParseFrame(Words(newdefn).defs[k], Len(frame.defn))]
        ELSE << SplitFrame(newdefn, Len(frame.defn)) >>))

Top == parser.stack[1]

Running == parser.step = "run" /\ parser.stack # << >>

Fail(exc) == [parser EXCEPT !.step = "failed", !.exc = exc]

ParseInit ==
    /\ df = NoFrame
    /\ obs = EmptyDict
    /\ header_defaults = InitialDefaults
    /\ infile = << >>
    /\ outfile = Absent
    /\ call = Call("__init__", << >>, "", << >>)
    /\ field = NoField
    /\ inputfile = NoInputFile
    /\ fast = NoFast
    /\ parser \in { [step |-> "text", file |-> f, stack |-> << >>, exc |-> ""] :
                    f \in ParseFiles }

\* __init__ up to the call of _split_defs
Preprocess ==
    /\ parser.step = "text"
    /\ \E pre \in { Preprocessed(parser.file) } :
           parser' = IF pre.exc # "" THEN Fail(pre.exc)
                     ELSE [parser EXCEPT !.step = "run",
                                         !.stack = << SplitFrame(pre.txt, 0 - 1) >>]
    /\ UNCHANGED << df, obs, header_defaults, infile, outfile, call, field, inputfile, fast >>

\* a pass of `while len(txt) > 0` up to its definition or its block search
SplitPass ==
    /\ Running
    /\ Top.kind = "split" /\ Top.loop = "words" /\ Len(Top.txt) > 0
    /\ \E pass \in { Pass(Top) } :
           parser' = IF pass.exc # "" THEN Fail(pass.exc)
                     ELSE [parser EXCEPT !.stack[1] = pass.frame]
    /\ UNCHANGED << df, obs, header_defaults, infile, outfile, call, field, inputfile, fast >>

\* a pass of `while Nopen != Nclose`
BalancePass ==
    /\ Running
    /\ Top.kind = "split" /\ Top.loop = "balance"
    /\ count(Top.blockdef, block_defs[Top.b].start)
           # count(Top.blockdef, block_defs[Top.b].end)
    /\ \E idx \in { NextBlockEnd(Top.rest, block_defs[Top.b], Top.idx) } :
           parser' = [parser EXCEPT !.stack[1].idx = idx,
                                    !.stack[1].blockdef = strip(SliceTo(Top.rest, idx))]
    /\ UNCHANGED << df, obs, header_defaults, infile, outfile, call, field, inputfile, fast >>

\* the block is taken as complete: its definition is appended, the text
\* trimmed
BalanceExit ==
    /\ Running
    /\ Top.kind = "split" /\ Top.loop = "balance"
    /\ count(Top.blockdef, block_defs[Top.b].start)
           = count(Top.blockdef, block_defs[Top.b].end)
    /\ parser' = [parser EXCEPT
                     !.stack[1] = Appended(Top, [name |-> Top.name, line |-> Top.blockdef,
                                                 type |-> block_defs[Top.b].type],
                                           strip(SliceFrom(Top.rest, Top.idx + 1)))]
    /\ UNCHANGED << df, obs, header_defaults, infile, outfile, call, field, inputfile, fast >>

\* _split_defs returns: its definitions are parsed in turn
SplitReturn ==
    /\ Running
    /\ Top.kind = "split" /\ Top.loop = "words" /\ Len(Top.txt) = 0
    /\ parser' = [parser EXCEPT
                     !.stack = [k \in 1..Len(Top.defs) |->
                                   ParseFrame(Top.defs[k], Top.parentlen)]
                               \o Tail(parser.stack)]
    /\ UNCHANGED << df, obs, header_defaults, infile, outfile, call, field, inputfile, fast >>

\* _parse(name, defn, containertype, parent) up to its loop
ParseCall ==
    /\ Running
    /\ Top.kind = "parse"
    /\ parser' = IF Top.type = "none"
                 THEN IF ~(find(strip(Top.defn), " ", 0) < 0) THEN Fail("AssertionError")
                      ELSE [parser EXCEPT !.stack = Tail(parser.stack)]
                 ELSE [parser EXCEPT !.stack = Children(Top) \o Tail(parser.stack)]
    /\ UNCHANGED << df, obs, header_defaults, infile, outfile, call, field, inputfile, fast >>

\* __init__ returns
ParseReturn ==
    /\ parser.step = "run"
    /\ parser.stack = << >>
    /\ parser' = [parser EXCEPT !.step = "done"]
    /\ UNCHANGED << df, obs, header_defaults, infile, outfile, call, field, inputfile, fast >>

ParseNext ==
    \/ Preprocess
    \/ SplitPass
    \/ BalancePass
    \/ BalanceExit
    \/ SplitReturn
    \/ ParseCall
    \/ ParseReturn

ParseSpec == ParseInit /\ [][ParseNext]_vars

\* the interpreter runs the construction on
ParseLiveSpec == ParseSpec /\ WF_vars(ParseNext)

\* the construction has returned or raised
ParseEnded == parser.step \in {"done", "failed"}

\* every _parse call made by a _parse call has a text shorter than the
\* block text of that call, and the _split_defs call between them a text
\* that is no longer
ChildrenShorter ==
    parser.step = "run" =>
        \A k \in 1..Len(parser.stack) :
            parser.stack[k].parentlen >= 0 =>
                IF parser.stack[k].kind = "parse"
                THEN Len(parser.stack[k].defn) < parser.stack[k].parentlen
                ELSE Len(parser.stack[k].txt) <= parser.stack[k].parentlen

\* a step in which a _split_defs loop ends a pass leaves it less text
PassShortens ==
    (/\ Running /\ parser'.step = "run"
     /\ Len(parser'.stack) = Len(parser.stack)
     /\ Top.kind = "split" /\ parser'.stack[1].kind = "split"
     /\ Len(parser'.stack[1].defs) > Len(Top.defs))
        => Len(parser'.stack[1].txt) < Len(Top.txt)

\* C27: InputFile construction terminates on every finite input text: each
\* pass of the _split_defs loop strictly shortens the remaining text, the
\* block-balancing loop always exits, each recursive _parse call works on
\* a text strictly shorter than its parent's block text, and the parse
\* returns a tree or fails.
C27_Terminates ==
    /\ [][PassShortens]_vars
    /\ []ChildrenShorter
    /\ <>ParseEnded

\* the construction ended as InputFile(f) does
ParseAgrees ==
    ParseEnded => parser.exc = InputFile(parser.file).exc

\* the construction of a list of two lists has returned
C27_Witness ==
    /\ parser.step = "done"
    /\ parser.file = << "a ((2 3) (4 5) ); z 1;" >>

(***************************************************************************)
(* The columns of the fields of a line                                     *)
(***************************************************************************)
\* the width a layout declares for a field: the number after the type
\* letter, 10 for a logical field
DeclaredWidth(rec) ==
    IF lower(Take(rec, 1)) = "l" THEN 10 ELSE FormatWidth(rec)

\* 0, w_1, w_1 + w_2, ..., w_1 + ... + w_k over the fields of a layout
RECURSIVE WidthsUpTo(_, _)
WidthsUpTo(records, k) ==
    IF k = 0 THEN << 0 >>
    ELSE With(WidthsUpTo(records, k - 1), LAMBDA sums :
             Append(sums, sums[k] + DeclaredWidth(records[k][2])))

\* the value of a field read from the columns [from, to) of the line
FromColumns(dtype, line, from, to) ==
    With(Convert(dtype, strip(Slice(line, from, to))),
         LAMBDA val : IF PyEqualsInt(val, nan_value) THEN NaN ELSE val)

\* C23: field k of a header line or of a data line is decoded from the
\* columns [w_1+...+w_(k-1), w_1+...+w_k) of the line, w_j the declared
\* widths (10 for a logical field), whatever the earlier fields hold: a
\* field that fails to decode or equals a sentinel shifts no later field.
C23_FixedColumns ==
    field.step = "decoded" =>
        With2(LineWith(field.layout, field.key, field.text),
              WidthsUpTo(RecordsOf(field.layout), Len(RecordsOf(field.layout))),
              LAMBDA line, sums :
            \A k \in 1..Len(RecordsOf(field.layout)) :
                With2(RecordsOf(field.layout)[k][1],
                      FromColumns(DtypesOf(field.layout)[RecordsOf(field.layout)[k][1]],
                                  line, sums[k], sums[k + 1]),
                      LAMBDA key, val :
                          IF IsError(val) THEN key \notin DOMAIN field.record
                          ELSE key \in DOMAIN field.record /\ field.record[key] = val))

\* a line was decoded whose field failed to decode, and a later field of
\* the line was decoded to a value
C23_Witness ==
    /\ field.step = "decoded"
    /\ field.key \notin DOMAIN field.record
    /\ \E j, k \in 1..Len(RecordsOf(field.layout)) :
           /\ j < k
           /\ RecordsOf(field.layout)[j][1] = field.key
           /\ RecordsOf(field.layout)[k][1] \in DOMAIN field.record
           /\ ~IsNaN(field.record[RecordsOf(field.layout)[k][1]])

(***************************************************************************)
(* Reading a file without a header                                         *)
(***************************************************************************)
\* C24: read of an empty file finds no header on the first header read and
\* completes without an exception, leaving an empty ID-to-header mapping
\* and a table with no rows.
C24_EmptyFileReads ==
    (call.op = "read" /\ infile = << >>) =>
        /\ call.exc = ""
        /\ DOMAIN obs = {}
        /\ ~df.none /\ df.rows = << >>

\* read of an empty file ends, by an exception or not, with the Report as
\* it was
C24_EmptyFileLeavesReport ==
    (call.op = "read" /\ infile = << >>) =>
        /\ call.exc = "TypeError"
        /\ DOMAIN obs = {}
        /\ df.none \/ df.rows = << >>

(***************************************************************************)
(* One Report reading one file after the other                             *)
(***************************************************************************)
\* the files read: no block, one block, and the two stations one after
\* the other
RereadFiles ==
    FilesOf(1)
    \cup { Block(HeaderA1, << Row1, Row2 >>, << Trailer3 >>)
               \o Block(HeaderB2, << Row1, Row2 >>, << Trailer3 >>) }

RereadInit ==
    /\ df = NoFrame
    /\ obs = EmptyDict
    /\ header_defaults = InitialDefaults
    /\ infile \in RereadFiles
    /\ outfile = Absent
    /\ call = Call("__init__", << >>, "", << >>)
    /\ field = NoField
    /\ inputfile = NoInputFile
    /\ parser = NoParser
    /\ fast = NoFast

\* report.read(fname), fname any of the files
ReadNext ==
    \E f \in RereadFiles :
        \E r \in { read(f, df, obs) } :
            /\ infile' = f
            /\ df' = r.df
            /\ obs' = r.obs
            /\ call' = Call("read", << >>, r.exc, r.out)
            /\ UNCHANGED << header_defaults, outfile >>
            /\ UNCHANGED others

RereadSpec == RereadInit /\ [][ReadNext]_vars

\* the IDs of the rows of a table
IDsIn(frame) == { frame.rows[k].ID : k \in 1..Len(frame.rows) }

\* C25: after any sequence of read calls on one Report the state reflects
\* only the last file read: the table holds exactly the rows of that file
\* and the ID-to-header mapping holds exactly the IDs that occur in the
\* table, no header being left over from an earlier read.
C25_OnlyLastFile ==
    (call.op = "read" /\ call.exc = "") =>
        /\ df = read(infile, NoFrame, EmptyDict).df
        /\ DOMAIN obs = IDsIn(df)

\* the table is the table of the last file read
C25_TableOfLastFile ==
    (call.op = "read" /\ call.exc = "") => df = read(infile, NoFrame, EmptyDict).df

\* a read has left the header of a station that has no row in the table
C25_HeaderLeftOver ==
    /\ call.op = "read" /\ call.exc = ""
    /\ \E id \in DOMAIN obs : id \notin IDsIn(df)

(***************************************************************************)
(* to_wrf_nudging for one station of a table of several                    *)
(***************************************************************************)
\* the table with the rows of one ID only
RowsOfID(frame, id) ==
    [frame EXCEPT !.rows = SelectSeq(frame.rows, LAMBDA r : r.ID = id)]

\* the call ended, and left the output file, as the same call does on the
\* Report that has the rows of obs_id only
SameAsAlone ==
    With(to_wrf_nudging(RowsOfID(df, call'.args[2].s), obs, outfile,
                        call'.args[1], call'.args[2]),
         LAMBDA alone :
             /\ call'.exc = alone.exc
             /\ call'.out = alone.out
             /\ outfile' = alone.file)

\* C26: to_wrf_nudging with an explicit obs_id depends only on the rows and
\* the header of that ID: it ends as it does on a Report with the same rows
\* and header for obs_id and no other row, and writes the same output file,
\* whatever the rows of the other IDs hold (missing pressure included).
C26_OwnRowsOnly ==
    [][(call'.op = "to_wrf_nudging" /\ call'.args[2] # NoID) => SameAsAlone]_vars

\* the same for a table in which no row of any ID misses its pressure
C26_OwnRowsWhenPressureKnown ==
    [][(call'.op = "to_wrf_nudging" /\ call'.args[2] # NoID /\ ~PressureMissing)
           => SameAsAlone]_vars

(***************************************************************************)
(* turbines.OpenFAST.run(i): the driver and the processes it starts.  A    *)
(* process writes its lines to the pipe, closes the pipe and exits, in     *)
(* that order and at its own pace; the driver reads the pipe to its end    *)
(* and then asks for the return code.                                      *)
(***************************************************************************)
turbsim == [s |-> "turbsim"]

\* the line each program prints when it ends normally
Banner(program) ==
    IF program = "ts" THEN "TurbSim terminated normally."
    ELSE "OpenFAST terminated normally."

\* what a program may print, line by line
Outputs(program) ==
    { << >>,
      << "Time: 1 of 2\n" >>,
      << "Time: 1 of 2\n", " " \o Banner(program) \o "\n" >> }

ReturnCodes == {0, 1}

\* subprocess.Popen(...): a process that has written nothing yet
Popen(lines, code) ==
    [lines |-> lines, code |-> code, written |-> 0, closed |-> FALSE, exited |-> FALSE]

\* proc.poll(): the return code of a process that has exited, else None
poll(proc) == IF proc.exited THEN [i |-> proc.code] ELSE None

\* a variant of Failed that looks at the termination line only
FailedByLine(okay, istat) == ~okay

\* (not okay) or (istat != 0)
Failed(okay, istat) == ~okay \/ ~PyEqualsInt(istat, 0)

RunInit ==
    /\ df = NoFrame
    /\ obs = EmptyDict
    /\ header_defaults = InitialDefaults
    /\ infile = << >>
    /\ outfile = Absent
    /\ call = Call("__init__", << >>, "", << >>)
    /\ field = NoField
    /\ inputfile = NoInputFile
    /\ parser = NoParser
    /\ fast \in { [step |-> "call", inflowtype |-> t, templates |-> ok, at |-> "ts",
                    ts |-> None, of |-> None, files |-> FALSE, okay |-> FALSE,
                    logged |-> 0, istat |-> None, exc |-> ""] :
                       t \in {None, turbsim}, ok \in BOOLEAN }

\* run(i) up to the Popen of run_turbsim
RunCall ==
    /\ fast.step = "call"
    /\ IF fast.inflowtype = turbsim
       THEN \E lines \in Outputs("ts"), code \in ReturnCodes :
                fast' = [fast EXCEPT !.step = "read", !.at = "ts",
                                     !.ts = Popen(lines, code),
                                     !.okay = FALSE, !.logged = 0]
       ELSE fast' = [fast EXCEPT !.step = "raised", !.exc = "RuntimeError"]
    /\ UNCHANGED << df, obs, header_defaults, infile, outfile, call, field, inputfile, parser >>

\* a pass of `for line in proc.stdout`
ReadLine ==
    /\ fast.step = "read"
    /\ fast.logged < fast[fast.at].written
    /\ fast' = [fast EXCEPT
                   !.logged = @ + 1,
                   !.okay = @ \/ strip(fast[fast.at].lines[fast.logged + 1])
                                     = Banner(fast.at)]
    /\ UNCHANGED << df, obs, header_defaults, infile, outfile, call, field, inputfile, parser >>

\* the loop ends: the pipe is closed and every line was read
ReadEnd ==
    /\ fast.step = "read"
    /\ fast.logged = fast[fast.at].written
    /\ fast[fast.at].closed
    /\ fast' = [fast EXCEPT !.step = "poll"]
    /\ UNCHANGED << df, obs, header_defaults, infile, outfile, call, field, inputfile, parser >>

\* istat = proc.poll() and the test that follows
Poll ==
    /\ fast.step = "poll"
    /\ \E istat \in { poll(fast[fast.at]) } :
           fast' = IF Failed(fast.okay, istat)
                   THEN [fast EXCEPT !.istat = istat, !.step = "raised",
                                     !.exc = "RuntimeError"]
                   ELSE [fast EXCEPT !.istat = istat,
                                     !.step = IF fast.at = "ts" THEN "setup"
                                              ELSE "returned"]
    /\ UNCHANGED << df, obs, header_defaults, infile, outfile, call, field, inputfile, parser >>

\* _setup_openfast(i): the two input files are generated from their
\* templates, or a template does not fit
SetupOpenfast ==
    /\ fast.step = "setup"
    /\ fast' = IF fast.templates
               THEN [fast EXCEPT !.files = TRUE, !.step = "start"]
               ELSE [fast EXCEPT !.step = "raised", !.exc = "KeyError"]
    /\ UNCHANGED << df, obs, header_defaults, infile, outfile, call, field, inputfile, parser >>

\* the Popen of run
StartOpenfast ==
    /\ fast.step = "start"
    /\ \E lines \in Outputs("of"), code \in ReturnCodes :
           fast' = [fast EXCEPT !.step = "read", !.at = "of",
                                !.of = Popen(lines, code),
                                !.okay = FALSE, !.logged = 0]
    /\ UNCHANGED << df, obs, header_defaults, infile, outfile, call, field, inputfile, parser >>

\* a process writes its next line
ProcWrite ==
    /\ fast.step \in {"read", "poll", "setup", "start", "returned", "raised"}
    /\ \E p \in {"ts", "of"} :
           /\ fast[p] # None
           /\ fast[p].written < Len(fast[p].lines)
           /\ fast' = [fast EXCEPT ![p].written = @ + 1]
    /\ UNCHANGED << df, obs, header_defaults, infile, outfile, call, field, inputfile, parser >>

\* a process closes its end of the pipe
ProcClose ==
    /\ fast.step \in {"read", "poll", "setup", "start", "returned", "raised"}
    /\ \E p \in {"ts", "of"} :
           /\ fast[p] # None
           /\ fast[p].written = Len(fast[p].lines)
           /\ ~fast[p].closed
           /\ fast' = [fast EXCEPT ![p].closed = TRUE]
    /\ UNCHANGED << df, obs, header_defaults, infile, outfile, call, field, inputfile, parser >>

\* a process has exited: its return code can be had
ProcExit ==
    /\ fast.step \in {"read", "poll", "setup", "start", "returned", "raised"}
    /\ \E p \in {"ts", "of"} :
           /\ fast[p] # None
           /\ fast[p].closed
           /\ ~fast[p].exited
           /\ fast' = [fast EXCEPT ![p].exited = TRUE]
    /\ UNCHANGED << df, obs, header_defaults, infile, outfile, call, field, inputfile, parser >>

RunNext ==
    \/ RunCall
    \/ ReadLine
    \/ ReadEnd
    \/ Poll
    \/ SetupOpenfast
    \/ StartOpenfast
    \/ ProcWrite
    \/ ProcClose
    \/ ProcExit

RunSpec == RunInit /\ [][RunNext]_vars

\* the process printed its line of normal termination
Printed(p) == \E k \in 1..Len(fast[p].lines) : strip(fast[p].lines[k]) = Banner(p)

\* the driver is past the test of the process p, which did not raise
Passed(p) ==
    IF p = "ts" THEN fast.step \in {"setup", "start"} \/ fast.of # None
                     \/ (fast.step = "raised" /\ fast.exc = "KeyError")
    ELSE fast.step = "returned"

\* the test of the process p raised
Raised(p) ==
    fast.step = "raised" /\ fast.exc = "RuntimeError" /\ fast.at = p /\ fast[p] # None

\* C29: run(i) and run_turbsim(i) report success exactly when the process
\* printed its line of normal termination and exits with return code 0,
\* however the process closing its output and exiting interleaves with the
\* driver reading the output and asking for the return code: such a
\* process is never reported as failed, and a process that omits the line
\* or exits with another code raises RuntimeError.
C29_SuccessExactly ==
    \A p \in {"ts", "of"} :
        /\ Raised(p) => ~(Printed(p) /\ fast[p].code = 0)
        /\ Passed(p) => (Printed(p) /\ fast[p].code = 0)

\* a process that omits the line or exits with another code is never
\* reported as successful
C29_FailureRaises ==
    \A p \in {"ts", "of"} : Passed(p) => (Printed(p) /\ fast[p].code = 0)

\* the return code was asked for before the process had exited
C29_PolledBeforeExit ==
    \E p \in {"ts", "of"} :
        Raised(p) /\ Printed(p) /\ fast[p].code = 0 /\ fast.okay /\ fast.istat = None

\* C30: in run(i) the OpenFAST input files are written and the OpenFAST
\* process is started only after the TurbSim process of the run printed
\* its line and exited with return code 0; when no inflow was set up or
\* TurbSim fails, run(i) raises RuntimeError and starts no OpenFAST process.
C30_OpenfastAfterTurbsim ==
    /\ (fast.files \/ fast.of # None) =>
           /\ fast.ts # None
           /\ Printed("ts") /\ fast.ts.exited /\ fast.ts.code = 0
    /\ (fast.step # "call" /\ fast.inflowtype = None) =>
           /\ fast.step = "raised" /\ fast.exc = "RuntimeError"
           /\ fast.of = None /\ ~fast.files
    /\ (fast.step \in {"returned", "raised"} /\ fast.ts # None
           /\ ~(Printed("ts") /\ fast.ts.code = 0)) =>
           /\ fast.step = "raised" /\ fast.exc = "RuntimeError"
           /\ fast.of = None /\ ~fast.files

\* OpenFAST was started after a TurbSim that had ended normally
C30_Witness ==
    /\ fast.of # None /\ fast.files
    /\ fast.ts # None /\ fast.ts.exited /\ fast.ts.code = 0

(***************************************************************************)
(* turbines.OpenFAST.run_all(procs): the loop over the runs, or the pool   *)
(* of worker processes that map() hands the runs to in chunks.  A run(i)   *)
(* is one step here, ending in any of the ways run(i) can end.             *)
(***************************************************************************)
MaxRuns == 9

MaxProcs == 2

\* how run(i) can end: "" for a return, else the exception raised
RunOutcomes(inflowtype) ==
    IF inflowtype = turbsim THEN {"", "RuntimeError", "KeyError"} ELSE {"RuntimeError"}

\* the chunk size Pool.map picks for n tasks and procs workers
Chunksize(n, procs) ==
    IF n = 0 THEN 0
    ELSE (n \div (4 * procs)) + (IF n % (4 * procs) # 0 THEN 1 ELSE 0)

\* range(n) cut into the chunks of Pool.map, in order
Chunks(n, procs) ==
    IF n = 0 THEN << >>
    ELSE With(Chunksize(n, procs), LAMBDA size :
             [k \in 1..((n + size - 1) \div size) |->
                 [j \in 1..(Min(k * size, n) - (k - 1) * size) |->
                     (k - 1) * size + j - 1]])

\* the loop after run(irun) ended with exc: on to the next run, or out of
\* run_all with the exception
AfterRun(state, exc) ==
    IF exc = "" THEN [state EXCEPT !.irun = @ + 1]
    ELSE [state EXCEPT !.step = "raised", !.exc = exc]

AllInit ==
    /\ df = NoFrame
    /\ obs = EmptyDict
    /\ header_defaults = InitialDefaults
    /\ infile = << >>
    /\ outfile = Absent
    /\ call = Call("__init__", << >>, "", << >>)
    /\ field = NoField
    /\ inputfile = NoInputFile
    /\ parser = NoParser
    /\ fast \in { [step |-> "idle", Nruns |-> n, inflowtype |-> None, parallel |-> FALSE,
                    irun |-> 0, attempts |-> [i \in 0..(n - 1) |-> 0],
                    queue |-> << >>, workers |-> << >>, exc |-> ""] :
                       n \in 0..MaxRuns }

\* setup_turbsim(inputs): the input files are generated, or a template
\* does not fit and inflowtype is left as it was
SetupTurbsim ==
    /\ fast.step = "idle"
    /\ \E fits \in BOOLEAN :
           fast' = IF fits THEN [fast EXCEPT !.inflowtype = turbsim, !.exc = ""]
                   ELSE [fast EXCEPT !.exc = "KeyError"]
    /\ UNCHANGED << df, obs, header_defaults, infile, outfile, call, field, inputfile, parser >>

\* run_all(procs) up to its loop or to the tasks of map() being queued
RunAll ==
    /\ fast.step \in {"idle", "done", "raised"}
    /\ \E procs \in 1..MaxProcs :
           fast' = [fast EXCEPT
                       !.parallel = procs > 1,
                       !.step = IF procs > 1 THEN "map" ELSE "loop",
                       !.irun = 0,
                       !.attempts = [i \in 0..(fast.Nruns - 1) |-> 0],
                       !.queue = IF procs > 1 THEN Chunks(fast.Nruns, procs) ELSE << >>,
                       !.workers = IF procs > 1 THEN [w \in 1..procs |-> << >>]
                                   ELSE << >>,
                       !.exc = ""]
    /\ UNCHANGED << df, obs, header_defaults, infile, outfile, call, field, inputfile, parser >>

\* a pass of `for irun in range(self.Nruns): self.run(irun)`
LoopRun ==
    /\ fast.step = "loop"
    /\ fast.irun < fast.Nruns
    /\ \E exc \in RunOutcomes(fast.inflowtype) :
           fast' = AfterRun([fast EXCEPT !.attempts[fast.irun] = @ + 1], exc)
    /\ UNCHANGED << df, obs, header_defaults, infile, outfile, call, field, inputfile, parser >>

\* the loop is over
LoopEnd ==
    /\ fast.step = "loop"
    /\ fast.irun = fast.Nruns
    /\ fast' = [fast EXCEPT !.step = "done"]
    /\ UNCHANGED << df, obs, header_defaults, infile, outfile, call, field, inputfile, parser >>

\* a worker of the pool takes the next chunk
WorkerTake ==
    /\ fast.step = "map"
    /\ fast.queue # << >>
    /\ \E w \in 1..Len(fast.workers) :
           /\ fast.workers[w] = << >>
           /\ fast' = [fast EXCEPT !.workers[w] = Head(fast.queue),
                                    !.queue = Tail(fast.queue)]
    /\ UNCHANGED << df, obs, header_defaults, infile, outfile, call, field, inputfile, parser >>

\* a worker calls run for the next index of its chunk; an exception ends
\* the chunk, and the first one is kept for map() to raise
WorkerRun ==
    /\ fast.step = "map"
    /\ \E w \in 1..Len(fast.workers) :
           /\ fast.workers[w] # << >>
           /\ \E exc \in RunOutcomes(fast.inflowtype) :
                  fast' = [fast EXCEPT
                              !.attempts[Head(fast.workers[w])] = @ + 1,
                              !.workers[w] = IF exc = "" THEN Tail(@) ELSE << >>,
                              !.exc = IF @ = "" THEN exc ELSE @]
    /\ UNCHANGED << df, obs, header_defaults, infile, outfile, call, field, inputfile, parser >>

\* every chunk is done: map() returns or raises, the pool is closed
MapEnd ==
    /\ fast.step = "map"
    /\ fast.queue = << >>
    /\ \A w \in 1..Len(fast.workers) : fast.workers[w] = << >>
    /\ fast' = [fast EXCEPT !.step = IF fast.exc = "" THEN "done" ELSE "raised",
                            !.workers = << >>]
    /\ UNCHANGED << df, obs, header_defaults, infile, outfile, call, field, inputfile, parser >>

AllNext ==
    \/ SetupTurbsim
    \/ RunAll
    \/ LoopRun
    \/ LoopEnd
    \/ WorkerTake
    \/ WorkerRun
    \/ MapEnd

AllSpec == AllInit /\ [][AllNext]_vars

\* run_all has returned or raised
AllEnded == fast.step \in {"done", "raised"}

\* C22: run_all attempts every run index 0..Nruns-1 exactly once per call,
\* for procs = 1 and for procs > 1: a failed run is never retried, and the
\* failure of one run keeps no other run from being attempted.
C22_EveryRunOnce ==
    /\ \A i \in DOMAIN fast.attempts : fast.attempts[i] <= 1
    /\ AllEnded => \A i \in DOMAIN fast.attempts : fast.attempts[i] = 1

\* no run is attempted twice in a call, and a call that returns has
\* attempted every run
C22_NoRetry ==
    /\ \A i \in DOMAIN fast.attempts : fast.attempts[i] <= 1
    /\ fast.step = "done" => \A i \in DOMAIN fast.attempts : fast.attempts[i] = 1

\* a sequential call raised at a run and left a later run unattempted
C22_LaterRunSkipped ==
    /\ fast.step = "raised" /\ ~fast.parallel
    /\ \E i \in DOMAIN fast.attempts : fast.attempts[i] = 0

\* a parallel call raised and left a run of a failed chunk unattempted
C22_RestOfChunkSkipped ==
    /\ fast.step = "raised" /\ fast.parallel
    /\ \E i \in DOMAIN fast.attempts : fast.attempts[i] = 0

====
